---------------------------- MODULE Spec2Model ----------------------------
(***************************************************************************)
(* Tiny-OS: the thread scheduler and the synchronisation primitives        *)
(* (src/src/threads/thread.c, src/src/threads/synch.c), the interrupt      *)
(* state (src/src/trap/interrupt.c) and the timer tick                     *)
(* (src/src/dev/timer.c) on the single live hart.                          *)
(*                                                                         *)
(* A thread is identified by the page that holds its thread_t and kernel   *)
(* stack.  Each thread's kernel stack is a sequence of frames, the top     *)
(* frame first; a frame names the place in the code where the thread       *)
(* continues and holds the locals of that call.  Code that runs with       *)
(* interrupts off is split at the calls of schedule(), switch_contexts()   *)
(* and __schedule_tail(); code that runs with interrupts on is split       *)
(* wherever shared state is read or written, and the timer tick may fire   *)
(* between any two such steps.                                             *)
(*                                                                         *)
(* The memory managers are modelled next to it: the bitmap and the buddy   *)
(* allocator of src/src/mm/pmm.c under clients that call alloc_pages and   *)
(* free_pages (SpecMm), and malloc and free of src/src/mm/malloc.c under   *)
(* clients that call them (SpecHeap).  Physical memory is the frames       *)
(* after the bitmap page; of a frame the model keeps its first four words  *)
(* and the bytes after them, which is where the allocators keep their      *)
(* block, list node and superblock headers.                                *)
(*                                                                         *)
(* The Sv39 page tables of src/src/mm/vmm.c are built on the same frames   *)
(* and driven by clients that call map, unmap and __walk (SpecVm).  The    *)
(* trap path of src/src/trap/trap.c and src/src/main.c, from               *)
(* thread_hart_init to scheduler_start with the supervisor interrupts and  *)
(* exceptions that can arrive on the way, is SpecTrap.                     *)
(***************************************************************************)
EXTENDS Integers, Naturals, Sequences, FiniteSets, TLC

\* Number of pages that can hold a thread (the boot stack plus the pages
\* the page allocator can hand to alloc_thread).
MaxThreads == 4

\* kthread_create is not called any more once next_tid has passed MaxTid.
MaxTid == 4

\* semaphore_up is not called on the client semaphore beyond this value.
MaxSemValue == 2

\* The quantum in timer ticks; thread.c:22 sets 10000, scaled down here.
TIME_SLICE == 2

\* uint64_t arithmetic.  The checker's integers are 32 bits wide: the value
\* 2^64 - 1 that a decrement of 0 wraps to is stood for by the largest one.
UINT64_MAX == 2147483647

dec64(v) == IF v = 0 THEN UINT64_MAX ELSE v - 1

inc64(v) == IF v = UINT64_MAX THEN 0 ELSE v + 1

null == 0

\* The page of kernel_stack, on which main() runs.
BootThread == 1

Threads == 1..MaxThreads

\* tid_lock.semaphore, scheduler_start's idle_started, and a semaphore "s"
\* shared by the client threads.
Sems == {"tid_lock", "idle_started", "s"}

VARIABLES
    status,         \* thread_t.status of each page
    tid,            \* thread_t.tid
    time,           \* thread_t.scheduler_info.time
    exit_code,      \* thread_t.exit_code
    allocated,      \* the thread pages currently held from the page allocator
    thread_count,   \* kernel_proc.thread_count
    next_tid,       \* next_tid
    ready_threads,  \* the ready queue, head first
    idle_thread,    \* idle_thread
    sem,            \* semaphore_t of each semaphore: value and waiters
    holder,         \* tid_lock.holder
    intr,           \* sstatus.SIE as intr_get_state() reads it
    cur,            \* the page that holds the stack pointer
    prev_reg,       \* the value switch_contexts returns to the resumed thread
    stk,            \* the kernel stack of each thread, top frame first
    tf,             \* the trap frame __kthread_create builds on a new stack
    panic,          \* "none", or the assertion or fault that stopped the kernel
    req,            \* the function each thread was created to run
    first_blocked,  \* history: per semaphore, the threads that have blocked
                    \* in the semaphore_down they are in, the earliest first
    ev,             \* what the last step did
    mm_pc,          \* how far main() is with the memory managers
    pm,             \* mm/pmm.c: the bitmap, the frames, the buckets
    held,           \* the blocks clients hold from alloc_pages
    scenario,       \* history: the calls of the page allocator so far
    mm_calls,       \* the number of allocations so far
    mm_ev,          \* what the last call of a memory manager did
    hp,             \* mm/malloc.c: the free list of each bucket
    live,           \* the blocks clients hold from malloc
    vm,             \* mm/vmm.c: pagetable and the entries of the page tables
    call,           \* mm/pmm.c: how far each thread is in alloc_pages, and
                    \* the frames it has been handed
    stvec,          \* the stvec register: "-" until trap_hart_init writes it
    sip,            \* the supervisor interrupts pending, by cause
    ticks           \* dev/timer.c: ticks, counted up to MaxTicks

sched_vars == <<status, tid, time, exit_code, allocated, thread_count, next_tid,
          ready_threads, idle_thread, sem, holder, intr, cur, prev_reg, stk,
          tf, panic, req, first_blocked, ev>>

mm_vars == <<mm_pc, pm, held, scenario, mm_calls, mm_ev, hp, live, vm,
            call>>

trap_vars == <<stvec, sip, ticks>>

vars == <<sched_vars, mm_vars, trap_vars>>

----------------------------------------------------------------------------
\* Frames

\* loc: where the thread continues; st: a saved interrupt state; sem: a
\* semaphore_t*; t: a thread_t*; fn, arg: a function and its argument; n: a
\* tid_t.
F(l) == [loc |-> l, st |-> "-", sem |-> "-", t |-> null, fn |-> "-",
         arg |-> "-", n |-> 0]

Top == Head(stk[cur])

Rest == Tail(stk[cur])

\* What the last step did: the operation, the thread that did it, the
\* semaphore and the other thread it concerns.
Ev(o, t, s, w) == [op |-> o, t |-> t, s |-> s, w |-> w]

NoTf == [epc |-> "-", a0 |-> "-", a1 |-> "-", spie |-> FALSE, spp |-> FALSE]

\* The argument each entry function is created with.
ArgOf(fn) == IF fn = "idle" THEN "idle_started" ELSE "null"

----------------------------------------------------------------------------
\* lib/list.c on the sequence of the nodes between nil.next and nil.prev

list_size(list) == Len(list)

list_head(list) == Head(list)

list_insert_after_tail(list, x) == Append(list, x)

\* A push that puts the node at the head of the list.
list_push_tail_at_head(list, x) == <<x>> \o list

list_push_tail(list, x) == list_insert_after_tail(list, x)

list_delete_head(list) == Tail(list)

----------------------------------------------------------------------------
\* trap/interrupt.c

intr_get_state == intr

intr_enable == "ON"

intr_disable == "OFF"

\* An intr_set_state that enables whatever the state it is given.
intr_set_state_enable(state) == intr_enable

intr_set_state(state) == IF state = "ON" THEN intr_enable ELSE intr_disable

----------------------------------------------------------------------------
\* threads/thread.c

\* The pages that hold a thread_t.
Live == allocated \cup {BootThread}

is_thread(t) == t # null /\ t \in Live

\* __thread_current(): the page of the stack pointer.
thread_current_raw == cur

\* The two assertions of thread_current().
thread_current_ok == is_thread(cur) /\ status[cur] = "RUNNING"

\* kernel_panic prints and spins for ever.  A failed assertion of schedule()
\* and a fault taken in the trap handler spin with interrupts off, so that
\* no thread runs any more.
Running == panic = "none"

Panic(msg) ==
    /\ panic' = msg
    /\ ev' = Ev("panic", cur, "-", null)
    /\ UNCHANGED <<status, tid, time, exit_code, allocated, thread_count,
                   next_tid, ready_threads, idle_thread, sem, holder, intr,
                   cur, prev_reg, stk, tf, req,
                   first_blocked>>

\* A scheduler_push that marks the thread RUNNING instead of READY.
scheduler_push_running(t) == [status EXCEPT ![t] = "RUNNING"]

\* scheduler_push: the status it sets and the queue it leaves.
scheduler_push_status(t) == [status EXCEPT ![t] = "READY"]

\* A scheduler_push that loses the thread when other threads are queued.
scheduler_push_queue_drop(t) ==
    IF list_size(ready_threads) = 0 THEN list_push_tail(ready_threads, t)
    ELSE ready_threads

scheduler_push_queue(t) == list_push_tail(ready_threads, t)

\* scheduler_pop: the thread it returns and the queue it leaves.
scheduler_pop_thread ==
    IF list_size(ready_threads) = 0 THEN idle_thread
    ELSE list_head(ready_threads)

scheduler_pop_queue ==
    IF list_size(ready_threads) = 0 THEN ready_threads
    ELSE list_delete_head(ready_threads)

\* A thread_run that leaves the status as it was.
thread_run_status_skip(t) == status

\* thread_run: the status and the quantum it sets.
thread_run_status(t) == [status EXCEPT ![t] = "RUNNING"]

\* A thread_run that leaves the quantum as it was.
thread_run_time_keep(t) == time

thread_run_time(t) == [time EXCEPT ![t] = TIME_SLICE]

\* thread_yield up to its call of schedule(): state = intr_disable();
\* if (t != idle_thread) scheduler_push(t).  `state` is the interrupt state
\* at the call and `below` the stack the call was made on.
thread_yield_call(state, below) ==
    /\ intr' = intr_disable
    /\ IF cur # idle_thread
       THEN /\ status' = scheduler_push_status(cur)
            /\ ready_threads' = scheduler_push_queue(cur)
       ELSE UNCHANGED <<status, ready_threads>>
    /\ stk' = [stk EXCEPT ![cur] =
                 <<F("schedule"), [F("thread_yield:ret") EXCEPT !.st = state]>>
                 \o below]

\* thread_yield() called by a thread.
thread_yield ==
    /\ Running /\ Top.loc = "run"
    /\ UNCHANGED mm_vars
    /\ UNCHANGED trap_vars
    /\ IF ~thread_current_ok THEN Panic("thread_yield: thread_current")
       ELSE /\ thread_yield_call(intr_get_state, stk[cur])
            /\ ev' = Ev("thread_yield", cur, "-", null)
            /\ UNCHANGED <<tid, time, exit_code, allocated, thread_count,
                           next_tid, idle_thread, sem, holder, cur, prev_reg,
                           tf, panic, req,
                           first_blocked>>

\* thread_yield: intr_set_state(state) after schedule() has returned.
thread_yield_ret ==
    /\ Running /\ Top.loc = "thread_yield:ret"
    /\ UNCHANGED mm_vars
    /\ UNCHANGED trap_vars
    /\ intr' = intr_set_state(Top.st)
    /\ stk' = [stk EXCEPT ![cur] = Rest]
    /\ UNCHANGED <<status, tid, time, exit_code, allocated, thread_count,
                   next_tid, ready_threads, idle_thread, sem, holder, cur,
                   prev_reg, tf, panic, req,
                   first_blocked>>
    /\ ev' = Ev("thread_yield_ret", cur, "-", null)

\* thread_block up to its call of schedule().
thread_block_call(below) ==
    /\ intr' = intr_disable
    /\ status' = [status EXCEPT ![cur] = "BLOCKED"]
    /\ stk' = [stk EXCEPT ![cur] =
                 <<F("schedule"), [F("thread_block:ret") EXCEPT !.st = intr_get_state]>>
                 \o below]

\* thread_block() called from the loop of semaphore_down.
thread_block ==
    /\ Running /\ Top.loc = "thread_block"
    /\ UNCHANGED mm_vars
    /\ UNCHANGED trap_vars
    /\ IF ~thread_current_ok THEN Panic("thread_block: thread_current")
       ELSE /\ thread_block_call(Rest)
            /\ UNCHANGED <<tid, time, exit_code, allocated, thread_count,
                           next_tid, ready_threads, idle_thread, sem, holder,
                           cur, prev_reg, tf, panic, req,
                           first_blocked>>
            /\ ev' = Ev("thread_block", cur, "-", null)

\* thread_block: intr_set_state(state) after schedule() has returned.
thread_block_ret ==
    /\ Running /\ Top.loc = "thread_block:ret"
    /\ UNCHANGED mm_vars
    /\ UNCHANGED trap_vars
    /\ intr' = intr_set_state(Top.st)
    /\ stk' = [stk EXCEPT ![cur] = Rest]
    /\ UNCHANGED <<status, tid, time, exit_code, allocated, thread_count,
                   next_tid, ready_threads, idle_thread, sem, holder, cur,
                   prev_reg, tf, panic, req,
                   first_blocked>>
    /\ ev' = Ev("thread_block_ret", cur, "-", null)

\* thread_exit(code) up to its call of schedule().
thread_exit_call(code) ==
    IF ~thread_current_ok THEN Panic("thread_exit: thread_current")
    ELSE /\ intr' = intr_disable
         /\ status' = [status EXCEPT ![cur] = "DEAD"]
         /\ exit_code' = [exit_code EXCEPT ![cur] = code]
         /\ stk' = [stk EXCEPT ![cur] = <<F("schedule"), F("NOT_REACHABLE")>>]
         /\ ev' = Ev("thread_exit", cur, "-", null)
         /\ UNCHANGED <<tid, time, allocated, thread_count, next_tid,
                        ready_threads, idle_thread, sem, holder, cur,
                        prev_reg, tf, panic, req,
                        first_blocked>>

\* kthread: thread_exit(0) once function(arg) has returned.
thread_exit ==
    /\ Running /\ Top.loc = "kthread:exit"
    /\ UNCHANGED mm_vars
    /\ UNCHANGED trap_vars
    /\ thread_exit_call(0)

\* The three assertions at the top of schedule(), in order.
schedule_assert ==
    IF intr_get_state # "OFF" THEN "schedule: intr_get_state() == INTR_OFF"
    ELSE IF ~is_thread(cur) THEN "schedule: is_thread(cur)"
    ELSE IF status[cur] = "RUNNING" THEN "schedule: cur->status != THREAD_RUNNING"
    ELSE IF ~is_thread(scheduler_pop_thread) THEN "schedule: is_thread(next)"
    ELSE "none"

\* schedule() up to and including switch_contexts(): the thread that goes
\* on is `next`; it continues in __schedule_tail with prev in a register.
schedule ==
    /\ Running /\ Top.loc = "schedule"
    /\ UNCHANGED mm_vars
    /\ UNCHANGED trap_vars
    /\ IF schedule_assert # "none" THEN Panic(schedule_assert)
       ELSE LET next == scheduler_pop_thread IN
            /\ ready_threads' = scheduler_pop_queue
            /\ stk' = [stk EXCEPT ![cur] = <<F("schedule_tail")>> \o Rest]
            /\ cur' = next
            /\ prev_reg' = IF cur # next THEN cur ELSE null
            /\ UNCHANGED <<status, tid, time, exit_code, allocated,
                           thread_count, next_tid, idle_thread, sem, holder,
                           intr, tf, panic, req,
                           first_blocked>>
            /\ ev' = Ev("schedule", cur, "-", null)

\* The assertions of __schedule_tail and of free_thread.
schedule_tail_assert ==
    IF intr_get_state # "OFF" THEN "__schedule_tail: intr_get_state() == INTR_OFF"
    ELSE IF ~is_thread(cur) THEN "__schedule_tail: is_thread(cur)"
    ELSE IF cur = prev_reg THEN "__schedule_tail: cur != prev"
    ELSE IF prev_reg # null /\ status[prev_reg] = "DEAD" /\ ~is_thread(prev_reg)
         THEN "free_thread: is_thread(t)"
    ELSE "none"

\* A free_thread that does not return the page.
free_thread_pages_leak(t) == allocated

\* free_thread(prev): free_page and proc_deregister_thread.
free_thread_pages(t) == allocated \ {t}

free_thread_count(t) == dec64(thread_count)

\* The fields of thread_t that assert(is_thread(t)) and
\* assert(t->status == THREAD_DEAD) read, each with whether the page of t
\* is among `pages`, the pages held from the page allocator at that time.
free_thread_asserts(t, pages) ==
    <<[field |-> "magic", page |-> t, held |-> t \in pages],
      [field |-> "status", page |-> t, held |-> t \in pages]>>

\* proc_deregister_thread(t): the two assertions, then p = t->proc.
proc_deregister_thread_reads(t, pages) ==
    free_thread_asserts(t, pages)
    \o <<[field |-> "proc", page |-> t, held |-> t \in pages]>>

\* free_thread(t) in the order of its statements: the assertions,
\* free_page(t), proc_deregister_thread(t).
free_thread_accesses(t) ==
    free_thread_asserts(t, allocated)
    \o proc_deregister_thread_reads(t, free_thread_pages(t))

\* A free_thread that deregisters the thread before it frees the page.
free_thread_accesses_held(t) ==
    free_thread_asserts(t, allocated)
    \o proc_deregister_thread_reads(t, allocated)

\* What a page holds once free_page has taken it: the thread_t's status
\* stays readable; the rest belongs to the allocator until alloc_page
\* zeroes the page.
free_page(f, t, v) == [f EXCEPT ![t] = v]

\* __schedule_tail(prev): thread_run(cur), then free_thread(prev) if prev
\* is DEAD.
schedule_tail ==
    /\ Running /\ Top.loc = "schedule_tail"
    /\ UNCHANGED mm_vars
    /\ UNCHANGED trap_vars
    /\ IF schedule_tail_assert # "none" THEN Panic(schedule_tail_assert)
       ELSE /\ status' = thread_run_status(cur)
            /\ IF prev_reg # null /\ status[prev_reg] = "DEAD"
               THEN /\ allocated' = free_thread_pages(prev_reg)
                    /\ thread_count' = free_thread_count(prev_reg)
                    /\ time' = free_page(thread_run_time(cur), prev_reg, 0)
                    /\ tid' = free_page(tid, prev_reg, 0)
                    /\ exit_code' = free_page(exit_code, prev_reg, 0)
                    /\ tf' = free_page(tf, prev_reg, NoTf)
                    /\ req' = free_page(req, prev_reg, "-")
                    /\ stk' = [stk EXCEPT ![cur] = Rest, ![prev_reg] = <<>>]
                    /\ ev' = Ev("free_thread", cur, "-", prev_reg)
                             @@ [acc |-> free_thread_accesses(prev_reg)]
               ELSE /\ time' = thread_run_time(cur)
                    /\ stk' = [stk EXCEPT ![cur] = Rest]
                    /\ ev' = Ev("thread_run", cur, "-", null)
                    /\ UNCHANGED <<allocated, thread_count, tid, exit_code,
                                   tf, req>>
            /\ UNCHANGED <<next_tid, ready_threads, idle_thread, sem, holder,
                           intr, cur, prev_reg, panic, first_blocked>>

\* thread_unblock(t): the assertions, then scheduler_push(t) with
\* interrupts off; the interrupt state is the caller's again on return.
thread_unblock_assert(t) ==
    IF ~is_thread(t) THEN "thread_unblock: is_thread(t)"
    ELSE IF status[t] # "BLOCKED" THEN "thread_unblock: t->status == THREAD_BLOCKED"
    ELSE "none"

----------------------------------------------------------------------------
\* threads/synch.c

\* A down that leaves the counter as it is.
semaphore_dec_skip(s) == sem

semaphore_dec(s) == [sem EXCEPT ![s].value = dec64(@)]

semaphore_inc(s) == [sem EXCEPT ![s].value = inc64(@)]

\* A test that takes the counter for positive whatever it is.
semaphore_available_always(s) == TRUE

\* The test of semaphore_down's loop and of semaphore_try_down.
semaphore_available(s) == sem[s].value > 0

\* semaphore_down: the waiter list after list_push_tail(&s->waiters, ...).
semaphore_down_wait(s) == [sem EXCEPT ![s].waiters = list_push_tail(@, cur)]

\* A semaphore_up that unblocks the waiter that came last.
semaphore_up_waiter_last(s) == sem[s].waiters[list_size(sem[s].waiters)]

\* semaphore_up: the waiter it unblocks and the waiter list it leaves.
semaphore_up_waiter(s) == list_head(sem[s].waiters)

\* A semaphore_up that leaves the woken thread on the waiter list.
semaphore_up_waiters_keep(s) == sem

semaphore_up_waiters(s) == [sem EXCEPT ![s].waiters = list_delete_head(@)]

\* semaphore_try_down(s), whole: it runs with interrupts off and restores
\* the caller's interrupt state.
semaphore_try_down ==
    /\ Running /\ Top.loc = "run"
    /\ UNCHANGED mm_vars
    /\ UNCHANGED trap_vars
    /\ IF semaphore_available("s")
       THEN /\ sem' = semaphore_dec("s")
            /\ ev' = Ev("semaphore_try_down", cur, "s", null)
       ELSE /\ UNCHANGED sem
            /\ ev' = Ev("semaphore_try_down:fail", cur, "s", null)
    /\ UNCHANGED <<status, tid, time, exit_code, allocated, thread_count,
                   next_tid, ready_threads, idle_thread, holder, intr, cur,
                   prev_reg, stk, tf, panic, req,
                   first_blocked>>

\* The call of semaphore_down(s) on the stack `below`:
\* old_state = intr_disable().
semaphore_down_call(s, below) ==
    /\ intr' = intr_disable
    /\ stk' = [stk EXCEPT ![cur] =
                 <<[F("semaphore_down:loop") EXCEPT !.st = intr_get_state, !.sem = s]>>
                 \o below]

\* A client thread calls semaphore_down(&s).
semaphore_down ==
    /\ Running /\ Top.loc = "run"
    /\ UNCHANGED mm_vars
    /\ UNCHANGED trap_vars
    /\ semaphore_down_call("s", stk[cur])
    /\ UNCHANGED <<status, tid, time, exit_code, allocated, thread_count,
                   next_tid, ready_threads, idle_thread, sem, holder, cur,
                   prev_reg, tf, panic, req,
                   first_blocked>>
    /\ ev' = Ev("semaphore_down:call", cur, "s", null)

\* The history of semaphore_down: the current thread blocks, for the first
\* time in this call or again; the current thread returns.
first_blocked_wait(s) ==
    [first_blocked EXCEPT ![s] =
        IF \E i \in DOMAIN @ : @[i] = cur THEN @ ELSE Append(@, cur)]

first_blocked_done(s) ==
    [first_blocked EXCEPT ![s] = SelectSeq(@, LAMBDA x : x # cur)]

\* One pass of semaphore_down's loop: while (s->value == 0) { push the
\* current thread on the waiters; thread_block(); }  s->value--;
\* intr_set_state(old_state).
semaphore_down_loop ==
    /\ Running /\ Top.loc = "semaphore_down:loop"
    /\ UNCHANGED mm_vars
    /\ UNCHANGED trap_vars
    /\ IF ~semaphore_available(Top.sem)
       THEN IF ~thread_current_ok THEN Panic("semaphore_down: thread_current")
            ELSE /\ sem' = semaphore_down_wait(Top.sem)
                 /\ stk' = [stk EXCEPT ![cur] = <<F("thread_block")>> \o stk[cur]]
                 /\ ev' = Ev("semaphore_down:wait", cur, Top.sem, null)
                 /\ first_blocked' = first_blocked_wait(Top.sem)
                 /\ UNCHANGED <<status, tid, time, exit_code, allocated,
                                thread_count, next_tid, ready_threads,
                                idle_thread, holder, intr, cur, prev_reg, tf,
                                panic, req>>
       ELSE /\ sem' = semaphore_dec(Top.sem)
            /\ intr' = intr_set_state(Top.st)
            /\ stk' = [stk EXCEPT ![cur] = Rest]
            /\ ev' = Ev("semaphore_down", cur, Top.sem, null)
            /\ first_blocked' = first_blocked_done(Top.sem)
            /\ UNCHANGED <<status, tid, time, exit_code, allocated,
                           thread_count, next_tid, ready_threads, idle_thread,
                           holder, cur, prev_reg, tf, panic, req>>

\* semaphore_up(s), whole, called with the stack `after` to continue on
\* (h is the lock holder the caller has left):
\* with interrupts off, thread_unblock the head waiter if there is one,
\* s->value++, and the caller's interrupt state again.
semaphore_up_call(s, after, h) ==
    IF list_size(sem[s].waiters) # 0
       /\ thread_unblock_assert(semaphore_up_waiter(s)) # "none"
    THEN Panic(thread_unblock_assert(semaphore_up_waiter(s)))
    ELSE /\ IF list_size(sem[s].waiters) # 0
            THEN /\ status' = scheduler_push_status(semaphore_up_waiter(s))
                 /\ ready_threads' = scheduler_push_queue(semaphore_up_waiter(s))
                 /\ sem' = [semaphore_up_waiters(s) EXCEPT ![s].value = inc64(@)]
                 /\ ev' = Ev("semaphore_up", cur, s, semaphore_up_waiter(s))
            ELSE /\ sem' = semaphore_inc(s)
                 /\ ev' = Ev("semaphore_up", cur, s, null)
                 /\ UNCHANGED <<status, ready_threads>>
         /\ stk' = [stk EXCEPT ![cur] = after]
         /\ holder' = h
         /\ UNCHANGED <<tid, time, exit_code, allocated, thread_count,
                        next_tid, idle_thread, intr, cur, prev_reg, tf, panic,
                        req,
                        first_blocked>>

\* A client thread calls semaphore_up(&s).
semaphore_up ==
    /\ Running /\ Top.loc = "run"
    /\ UNCHANGED mm_vars
    /\ UNCHANGED trap_vars
    /\ sem["s"].value < MaxSemValue
    /\ semaphore_up_call("s", stk[cur], holder)

----------------------------------------------------------------------------
\* threads/thread.c: kernel threads

\* alloc_page(): the lowest free thread page, or null when none is left.
alloc_page ==
    IF Threads \ Live = {} THEN null
    ELSE CHOOSE p \in Threads \ Live : \A q \in Threads \ Live : p <= q

\* The call of kthread_create(name, fn, arg) with the stack `after` to
\* return to: alloc_thread(name, &kernel_proc), which takes a zeroed page,
\* and on it __thread_init up to the load of p->thread_count in
\* proc_register_thread.  p->thread_count++ is a load, an add and a store,
\* made with interrupts on and no lock: the frame keeps the value loaded.
kthread_create_call(fn, after) ==
    LET t == alloc_page IN
    /\ IF t # null
       THEN /\ allocated' = allocated \cup {t}
            /\ status' = [status EXCEPT ![t] = "NEW"]
            /\ tid' = [tid EXCEPT ![t] = 0]
            /\ time' = [time EXCEPT ![t] = 0]
            /\ exit_code' = [exit_code EXCEPT ![t] = 0]
            /\ req' = [req EXCEPT ![t] = fn]
            /\ tf' = [tf EXCEPT ![t] = NoTf]
            /\ stk' = [stk EXCEPT ![cur] =
                         <<[F("proc_register_thread") EXCEPT
                              !.t = t, !.fn = fn, !.n = thread_count]>>
                         \o after]
       ELSE /\ UNCHANGED <<allocated, status, tid, time, exit_code, req, tf>>
            /\ stk' = [stk EXCEPT ![cur] =
                         <<[F("allocate_tid") EXCEPT !.t = t, !.fn = fn]>>
                         \o after]
    /\ UNCHANGED <<thread_count, next_tid, ready_threads, idle_thread, sem,
                   holder, intr, cur, prev_reg, panic, first_blocked>>
    /\ ev' = Ev("alloc_thread", cur, "-", alloc_page)

\* The value proc_register_thread stores: the value loaded, plus one.
thread_count_store(loaded) == inc64(loaded)

\* proc_register_thread: the store of p->thread_count++, then the rest of
\* __thread_init, t->exit_code = -1.
proc_register_thread ==
    /\ Running /\ Top.loc = "proc_register_thread"
    /\ UNCHANGED mm_vars
    /\ UNCHANGED trap_vars
    /\ thread_count' = thread_count_store(Top.n)
    /\ exit_code' = [exit_code EXCEPT ![Top.t] = -1]
    /\ stk' = [stk EXCEPT ![cur] =
                 <<[F("allocate_tid") EXCEPT !.t = Top.t, !.fn = Top.fn]>>
                 \o Rest]
    /\ UNCHANGED <<status, tid, time, allocated, next_tid, ready_threads,
                   idle_thread, sem, holder, intr, cur, prev_reg, tf, panic,
                   req, first_blocked>>
    /\ ev' = Ev("proc_register_thread", cur, "-", Top.t)

\* A client thread calls kthread_create("t", th_f1, null).
kthread_create ==
    /\ Running /\ Top.loc = "run"
    /\ UNCHANGED mm_vars
    /\ UNCHANGED trap_vars
    /\ next_tid <= MaxTid
    /\ kthread_create_call("th_f1", stk[cur])

\* A next_tid++ that leaves next_tid as it is.
next_tid_keep(n) == n

\* next_tid after tid = next_tid++.
next_tid_inc(n) == inc64(n)

\* allocate_tid: lock_acquire(&tid_lock) up to its semaphore_down.
allocate_tid ==
    /\ Running /\ Top.loc = "allocate_tid"
    /\ UNCHANGED mm_vars
    /\ UNCHANGED trap_vars
    /\ IF ~thread_current_ok THEN Panic("lock_acquire: thread_current")
       ELSE IF holder = cur THEN Panic("lock_acquire: !lock_held_by_current_thread(l)")
       ELSE /\ semaphore_down_call("tid_lock",
                   <<[Top EXCEPT !.loc = "allocate_tid:locked"]>> \o Rest)
            /\ UNCHANGED <<status, tid, time, exit_code, allocated,
                           thread_count, next_tid, ready_threads, idle_thread,
                           sem, holder, cur, prev_reg, tf, panic, req,
                           first_blocked>>
            /\ ev' = Ev("allocate_tid", cur, "-", null)

\* allocate_tid with the lock: l->holder = thread_current();
\* tid = next_tid++.
allocate_tid_locked ==
    /\ Running /\ Top.loc = "allocate_tid:locked"
    /\ UNCHANGED mm_vars
    /\ UNCHANGED trap_vars
    /\ IF ~thread_current_ok THEN Panic("lock_acquire: thread_current")
       ELSE /\ holder' = cur
            /\ next_tid' = next_tid_inc(next_tid)
            /\ stk' = [stk EXCEPT ![cur] =
                 <<[Top EXCEPT !.loc = "allocate_tid:release", !.n = next_tid]>>
                 \o Rest]
            /\ ev' = Ev("lock_acquire", cur, "tid_lock", null)
            /\ UNCHANGED <<status, tid, time, exit_code, allocated,
                           thread_count, ready_threads, idle_thread, sem,
                           intr, cur, prev_reg, tf, panic, req,
                           first_blocked>>

\* allocate_tid: lock_release(&tid_lock), that is l->holder = null and
\* semaphore_up.
allocate_tid_release ==
    /\ Running /\ Top.loc = "allocate_tid:release"
    /\ UNCHANGED mm_vars
    /\ UNCHANGED trap_vars
    /\ IF ~thread_current_ok THEN Panic("lock_release: thread_current")
       ELSE IF holder # cur THEN Panic("lock_release: lock_held_by_current_thread(l)")
       ELSE semaphore_up_call("tid_lock",
                <<[Top EXCEPT !.loc = "__kthread_create"]>> \o Rest, null)

\* A client thread calls lock_try_acquire(&tid_lock): the assertion and
\* semaphore_try_down, which runs with interrupts off.
lock_try_acquire ==
    /\ Running /\ Top.loc = "run"
    /\ UNCHANGED mm_vars
    /\ UNCHANGED trap_vars
    /\ IF ~thread_current_ok THEN Panic("lock_try_acquire: thread_current")
       ELSE IF holder = cur
       THEN Panic("lock_try_acquire: !lock_held_by_current_thread(l)")
       ELSE /\ IF semaphore_available("tid_lock")
               THEN /\ sem' = semaphore_dec("tid_lock")
                    /\ stk' = [stk EXCEPT ![cur] =
                                 <<F("lock_try_acquire:holder")>> \o stk[cur]]
                    /\ ev' = Ev("semaphore_try_down", cur, "tid_lock", null)
               ELSE /\ UNCHANGED <<sem, stk>>
                    /\ ev' = Ev("lock_try_acquire:fail", cur, "tid_lock", null)
            /\ UNCHANGED <<status, tid, time, exit_code, allocated,
                           thread_count, next_tid, ready_threads, idle_thread,
                           holder, intr, cur, prev_reg, tf, panic, req,
                           first_blocked>>

\* lock_try_acquire after a successful semaphore_try_down:
\* l->holder = thread_current(); return success.
lock_try_acquire_holder ==
    /\ Running /\ Top.loc = "lock_try_acquire:holder"
    /\ UNCHANGED mm_vars
    /\ UNCHANGED trap_vars
    /\ IF ~thread_current_ok THEN Panic("lock_try_acquire: thread_current")
       ELSE /\ holder' = cur
            /\ stk' = [stk EXCEPT ![cur] = <<F("locked")>> \o Rest]
            /\ ev' = Ev("lock_try_acquire", cur, "tid_lock", null)
            /\ UNCHANGED <<status, tid, time, exit_code, allocated,
                           thread_count, next_tid, ready_threads, idle_thread,
                           sem, intr, cur, prev_reg, tf, panic, req,
                           first_blocked>>

\* The client thread that holds tid_lock calls lock_release(&tid_lock).
lock_release ==
    /\ Running /\ Top.loc = "locked"
    /\ UNCHANGED mm_vars
    /\ UNCHANGED trap_vars
    /\ IF ~thread_current_ok THEN Panic("lock_release: thread_current")
       ELSE IF holder # cur THEN Panic("lock_release: lock_held_by_current_thread(l)")
       ELSE semaphore_up_call("tid_lock", Rest, null)

\* A trap frame that does not pass the argument on.
kthread_trap_frame_no_arg(fn, arg) ==
    [epc |-> "kthread", a0 |-> fn, a1 |-> "null", spie |-> TRUE, spp |-> TRUE]

\* The trap frame and the context __kthread_create builds.
kthread_trap_frame(fn, arg) ==
    [epc |-> "kthread", a0 |-> fn, a1 |-> arg, spie |-> TRUE, spp |-> TRUE]

kthread_stack == <<F("schedule_tail"), F("s_ret_trap")>>

\* __kthread_create after allocate_tid: t->tid = tid, the trap frame and
\* the context on the new stack; then kthread_create's
\* t->status = THREAD_BLOCKED.  A null t is written through.
kthread_create_frame ==
    /\ Running /\ Top.loc = "__kthread_create"
    /\ UNCHANGED mm_vars
    /\ UNCHANGED trap_vars
    /\ IF Top.t = null THEN Panic("store page fault: null->tid")
       ELSE /\ tid' = [tid EXCEPT ![Top.t] = Top.n]
            /\ tf' = [tf EXCEPT ![Top.t] = kthread_trap_frame(Top.fn, ArgOf(Top.fn))]
            /\ status' = [status EXCEPT ![Top.t] = "BLOCKED"]
            /\ stk' = [stk EXCEPT ![Top.t] = kthread_stack,
                                  ![cur] = <<[Top EXCEPT !.loc = "kthread_create:unblock"]>>
                                           \o Rest]
            /\ UNCHANGED <<time, exit_code, allocated, thread_count, next_tid,
                           ready_threads, idle_thread, sem, holder, intr, cur,
                           prev_reg, panic, req,
                           first_blocked>>
            /\ ev' = Ev("kthread_create_frame", cur, "-", null)

\* kthread_create: thread_unblock(t); return tid.
kthread_create_unblock ==
    /\ Running /\ Top.loc = "kthread_create:unblock"
    /\ UNCHANGED mm_vars
    /\ UNCHANGED trap_vars
    /\ IF thread_unblock_assert(Top.t) # "none" THEN Panic(thread_unblock_assert(Top.t))
       ELSE /\ status' = scheduler_push_status(Top.t)
            /\ ready_threads' = scheduler_push_queue(Top.t)
            /\ stk' = [stk EXCEPT ![cur] = Rest]
            /\ ev' = Ev("kthread_create", cur, "-", Top.t)
            /\ UNCHANGED <<tid, time, exit_code, allocated, thread_count,
                           next_tid, idle_thread, sem, holder, intr, cur,
                           prev_reg, tf, panic, req,
                           first_blocked>>

\* The return through s_ret_trap on a new thread's first run: the trap
\* frame is restored, sret sets SIE from SPIE and jumps to epc with a0, a1.
s_ret_trap ==
    /\ Running /\ Top.loc = "s_ret_trap"
    /\ UNCHANGED mm_vars
    /\ UNCHANGED trap_vars
    /\ intr' = IF tf[cur].spie THEN "ON" ELSE "OFF"
    /\ stk' = [stk EXCEPT ![cur] =
                 <<[F(tf[cur].epc) EXCEPT !.fn = tf[cur].a0, !.arg = tf[cur].a1]>>]
    /\ UNCHANGED <<status, tid, time, exit_code, allocated, thread_count,
                   next_tid, ready_threads, idle_thread, sem, holder, cur,
                   prev_reg, tf, panic, req,
                   first_blocked>>
    /\ ev' = Ev("s_ret_trap", cur, "-", null)

\* The body each entry function starts in.
function_entry(fn) == IF fn = "idle" THEN "idle" ELSE "run"

\* kthread(function, arg): intr_enable(); function(arg); thread_exit(0).
kthread ==
    /\ Running /\ Top.loc = "kthread"
    /\ UNCHANGED mm_vars
    /\ UNCHANGED trap_vars
    /\ IF Top.fn \notin {"idle", "th_f1"} THEN Panic("kthread: function != null")
       ELSE /\ intr' = intr_enable
            /\ stk' = [stk EXCEPT ![cur] =
                 <<[F(function_entry(Top.fn)) EXCEPT !.fn = Top.fn, !.arg = Top.arg],
                   F("kthread:exit")>>]
            /\ ev' = Ev("kthread", cur, "-", null)
            /\ UNCHANGED <<status, tid, time, exit_code, allocated,
                           thread_count, next_tid, ready_threads, idle_thread,
                           sem, holder, cur, prev_reg, tf, panic, req,
                           first_blocked>>

\* th_f1 returns to kthread.
function_return ==
    /\ Running /\ Top.loc = "run" /\ Top.fn = "th_f1"
    /\ UNCHANGED mm_vars
    /\ UNCHANGED trap_vars
    /\ stk' = [stk EXCEPT ![cur] = Rest]
    /\ UNCHANGED <<status, tid, time, exit_code, allocated, thread_count,
                   next_tid, ready_threads, idle_thread, sem, holder, intr,
                   cur, prev_reg, tf, panic, req,
                   first_blocked>>
    /\ ev' = Ev("function_return", cur, "-", null)

\* idle: idle_thread = thread_current().
idle ==
    /\ Running /\ Top.loc = "idle"
    /\ UNCHANGED mm_vars
    /\ UNCHANGED trap_vars
    /\ IF ~thread_current_ok THEN Panic("idle: thread_current")
       ELSE /\ idle_thread' = thread_current_raw
            /\ stk' = [stk EXCEPT ![cur] = <<[Top EXCEPT !.loc = "idle:up"]>> \o Rest]
            /\ UNCHANGED <<status, tid, time, exit_code, allocated,
                           thread_count, next_tid, ready_threads, sem, holder,
                           intr, cur, prev_reg, tf, panic, req,
                           first_blocked>>
            /\ ev' = Ev("idle", cur, "-", null)

\* idle: semaphore_up(idle_started).
idle_up ==
    /\ Running /\ Top.loc = "idle:up"
    /\ UNCHANGED mm_vars
    /\ UNCHANGED trap_vars
    /\ semaphore_up_call(Top.arg, <<[Top EXCEPT !.loc = "idle:loop"]>> \o Rest,
                         holder)

\* idle: one thread_block() of the for (;;) loop, up to schedule().
idle_loop ==
    /\ Running /\ Top.loc = "idle:loop"
    /\ UNCHANGED mm_vars
    /\ UNCHANGED trap_vars
    /\ IF ~thread_current_ok THEN Panic("thread_block: thread_current")
       ELSE /\ thread_block_call(stk[cur])
            /\ UNCHANGED <<tid, time, exit_code, allocated, thread_count,
                           next_tid, ready_threads, idle_thread, sem, holder,
                           cur, prev_reg, tf, panic, req,
                           first_blocked>>
            /\ ev' = Ev("idle_loop", cur, "-", null)

----------------------------------------------------------------------------
\* main.c and scheduler_start

\* thread_hart_init(), whole (interrupts are off and no other thread
\* exists): __thread_init(init), thread_run(init), init->tid = allocate_tid().
thread_hart_init ==
    /\ Running /\ Top.loc = "main:thread_hart_init"
    /\ UNCHANGED mm_vars
    /\ UNCHANGED trap_vars
    /\ IF intr_get_state # "OFF" THEN Panic("thread_hart_init: intr_get_state() == INTR_OFF")
       ELSE /\ status' = thread_run_status(cur)
            /\ time' = thread_run_time(cur)
            /\ exit_code' = [exit_code EXCEPT ![cur] = -1]
            /\ thread_count' = inc64(thread_count)
            /\ tid' = [tid EXCEPT ![cur] = next_tid]
            /\ next_tid' = next_tid_inc(next_tid)
            /\ stk' = [stk EXCEPT ![cur] = <<F("main:trap_init")>>]
            /\ ev' = Ev("thread_hart_init", cur, "-", null)
            /\ UNCHANGED <<allocated, ready_threads, idle_thread, sem, holder,
                           intr, cur, prev_reg, tf, panic, req,
                           first_blocked>>

\* trap_init(): w_sie(r_sie() | SIE_STIE | SIE_SSIE | SIE_SEIE), then
\* intr_enable().  sstatus.SIE is on only after this, so that a pending
\* interrupt is taken exactly when intr is ON.
trap_init ==
    /\ Running /\ Top.loc = "main:trap_init"
    /\ UNCHANGED mm_vars
    /\ UNCHANGED trap_vars
    /\ intr' = intr_enable
    /\ stk' = [stk EXCEPT ![cur] = <<F("main:trap_hart_init")>>]
    /\ UNCHANGED <<status, tid, time, exit_code, allocated, thread_count,
                   next_tid, ready_threads, idle_thread, sem, holder, cur,
                   prev_reg, tf, panic, req,
                   first_blocked>>
    /\ ev' = Ev("trap_init", cur, "-", null)

\* trap_hart_init(), which main() calls after trap_init():
\* w_stvec(STVEC(s_trap_vec, STVEC_MODE_DIRECT)).
trap_hart_init ==
    /\ Running /\ Top.loc = "main:trap_hart_init"
    /\ UNCHANGED mm_vars
    /\ stvec' = "s_trap_vec"
    /\ stk' = [stk EXCEPT ![cur] = <<F("scheduler_start")>>]
    /\ UNCHANGED <<status, tid, time, exit_code, allocated, thread_count,
                   next_tid, ready_threads, idle_thread, sem, holder, intr,
                   cur, prev_reg, tf, panic, req, first_blocked>>
    /\ UNCHANGED <<sip, ticks>>
    /\ ev' = Ev("trap_hart_init", cur, "-", null)

\* scheduler_start: kthread_create("idle", idle, &idle_started).
scheduler_start ==
    /\ Running /\ Top.loc = "scheduler_start"
    /\ UNCHANGED mm_vars
    /\ UNCHANGED trap_vars
    /\ kthread_create_call("idle", <<F("scheduler_start:intr_enable")>>)

\* scheduler_start: intr_enable().
scheduler_start_intr_enable ==
    /\ Running /\ Top.loc = "scheduler_start:intr_enable"
    /\ UNCHANGED mm_vars
    /\ UNCHANGED trap_vars
    /\ intr' = intr_enable
    /\ stk' = [stk EXCEPT ![cur] = <<F("scheduler_start:semaphore_down")>>]
    /\ UNCHANGED <<status, tid, time, exit_code, allocated, thread_count,
                   next_tid, ready_threads, idle_thread, sem, holder, cur,
                   prev_reg, tf, panic, req,
                   first_blocked>>
    /\ ev' = Ev("scheduler_start_intr_enable", cur, "-", null)

\* scheduler_start: semaphore_down(&idle_started); what main() does after
\* it is the work of a client thread that never returns.
scheduler_start_semaphore_down ==
    /\ Running /\ Top.loc = "scheduler_start:semaphore_down"
    /\ UNCHANGED mm_vars
    /\ UNCHANGED trap_vars
    /\ semaphore_down_call("idle_started", <<[F("run") EXCEPT !.fn = "main"]>>)
    /\ UNCHANGED <<status, tid, time, exit_code, allocated, thread_count,
                   next_tid, ready_threads, idle_thread, sem, holder, cur,
                   prev_reg, tf, panic, req,
                   first_blocked>>
    /\ ev' = Ev("scheduler_start_semaphore_down", cur, "-", null)

----------------------------------------------------------------------------
\* dev/timer.c and the trap path

\* The timer interrupts the model tells apart in ticks.
MaxTicks == 1

\* ticks++, counted up to MaxTicks.
ticks_inc == IF ticks < MaxTicks THEN ticks + 1 ELSE ticks

\* A trap taken while stvec holds no vector: the hart jumps to the address
\* the register holds at reset, not to s_trap_vec, and the kernel is lost.
no_trap_vector == Panic("stvec: no trap vector") /\ UNCHANGED ticks

\* A timer interrupt, taken with interrupts on: the trap clears SIE,
\* timer_handle_interrupt calls scheduler_tick, which decrements the
\* current thread's quantum and calls thread_yield() when it reaches 0;
\* otherwise the handler returns and sret sets SIE again.
timer_handle_interrupt ==
    /\ Running /\ intr = "ON"
    /\ UNCHANGED mm_vars
    /\ UNCHANGED <<stvec, sip>>
    /\ IF stvec # "s_trap_vec" THEN no_trap_vector
       ELSE IF ~thread_current_ok
       THEN Panic("scheduler_tick: thread_current") /\ ticks' = ticks_inc
       ELSE /\ ticks' = ticks_inc
            /\ time' = [time EXCEPT ![cur] = dec64(@)]
            /\ IF dec64(time[cur]) = 0
               THEN /\ thread_yield_call("OFF", <<F("s_trap:ret")>> \o stk[cur])
                    /\ ev' = Ev("preempt", cur, "-", null)
               ELSE /\ ev' = Ev("tick", cur, "-", null)
                    /\ UNCHANGED <<status, ready_threads, intr, stk>>
            /\ UNCHANGED <<tid, exit_code, allocated, thread_count, next_tid,
                           idle_thread, sem, holder, cur, prev_reg, tf, panic,
                           req,
                           first_blocked>>

\* The return from s_trap through s_ret_trap: sret sets SIE from SPIE,
\* which the trap set from the SIE it was taken with.
s_trap_ret ==
    /\ Running /\ Top.loc = "s_trap:ret"
    /\ UNCHANGED mm_vars
    /\ UNCHANGED trap_vars
    /\ intr' = "ON"
    /\ stk' = [stk EXCEPT ![cur] = Rest]
    /\ UNCHANGED <<status, tid, time, exit_code, allocated, thread_count,
                   next_tid, ready_threads, idle_thread, sem, holder, cur,
                   prev_reg, tf, panic, req,
                   first_blocked>>
    /\ ev' = Ev("s_trap_ret", cur, "-", null)

----------------------------------------------------------------------------
\* trap/trap.c and trap/interrupt.c: s_trap and its two handlers.

CAUSE_SSI == 1

CAUSE_STI == 5

CAUSE_SEI == 9

\* The exception codes raised in a run: 0 to MaxCause.
MaxCause == 16

\* s_exc_handler without its case EXC_BREAKPOINT.
exc_panic_no_breakpoint(c) ==
    IF c \in {0, 4, 6} THEN "Address misaligned."
    ELSE IF c \in {12, 13, 15} THEN "Page fault."
    ELSE IF c \in {1, 5, 7} THEN "Access fault."
    ELSE IF c \in {8, 9, 11} THEN "E-call."
    ELSE IF c = 2 THEN "Illegal instruction."
    ELSE "none"

\* The cases of the switch of s_exc_handler that panic, with what they
\* print; the default case dumps the trap frame and breaks.
exc_panic(c) ==
    IF c \in {0, 4, 6} THEN "Address misaligned."
    ELSE IF c \in {12, 13, 15} THEN "Page fault."
    ELSE IF c \in {1, 5, 7} THEN "Access fault."
    ELSE IF c \in {8, 9, 11} THEN "E-call."
    ELSE IF c = 2 THEN "Illegal instruction."
    ELSE IF c = 3 THEN "Breakpoint encountered."
    ELSE "none"

\* The switch of s_intr_handler.
intr_case(c) ==
    IF c = CAUSE_STI THEN "timer_handle_interrupt"
    ELSE IF c = CAUSE_SEI THEN "plic_handle_interrupt"
    ELSE "Unexpected interrupt."

\* The machine-mode timer vector: it rearms mtimecmp and raises the
\* supervisor software interrupt through mip.SSIP.
m_trap_vec ==
    /\ Running
    /\ CAUSE_SSI \notin sip
    /\ sip' = sip \cup {CAUSE_SSI}
    /\ ev' = Ev("m_trap_vec", cur, "-", null)
    /\ UNCHANGED <<stvec, ticks>>
    /\ UNCHANGED <<status, tid, time, exit_code, allocated, thread_count,
                   next_tid, ready_threads, idle_thread, sem, holder, intr,
                   cur, prev_reg, stk, tf, panic, req, first_blocked>>
    /\ UNCHANGED mm_vars

\* s_trap for a pending interrupt that the machine-mode vector has raised,
\* taken with interrupts on: s_intr_handler has no case for it, and its
\* default case dumps the trap frame and panics.
s_intr_handler ==
    /\ Running /\ intr = "ON"
    /\ UNCHANGED mm_vars
    /\ UNCHANGED trap_vars
    /\ \E c \in sip :
         /\ intr_case(c) \notin {"timer_handle_interrupt",
                                 "plic_handle_interrupt"}
         /\ ev' = Ev("s_intr_handler", cur, "-", c)
         /\ panic' = IF stvec # "s_trap_vec" THEN "stvec: no trap vector"
                      ELSE intr_case(c)
    /\ UNCHANGED <<status, tid, time, exit_code, allocated, thread_count,
                   next_tid, ready_threads, idle_thread, sem, holder, intr,
                   cur, prev_reg, stk, tf, req, first_blocked>>

\* s_trap for an exception of code c, raised by the instruction the
\* current thread executes: s_exc_handler panics, or in its default case
\* dumps the trap frame and returns, and sret resumes at the same epc with
\* the interrupt state the trap was taken with.
s_exc_handler ==
    /\ Running
    /\ UNCHANGED mm_vars
    /\ UNCHANGED trap_vars
    /\ \E c \in 0..MaxCause :
         /\ ev' = Ev("s_exc_handler", cur, "-", c)
         /\ panic' = IF stvec # "s_trap_vec" THEN "stvec: no trap vector"
                      ELSE exc_panic(c)
    /\ UNCHANGED <<status, tid, time, exit_code, allocated, thread_count,
                   next_tid, ready_threads, idle_thread, sem, holder, intr,
                   cur, prev_reg, stk, tf, req, first_blocked>>

----------------------------------------------------------------------------
\* mm/pmm.c: the bitmap and the binary buddy allocator.
\*
\* A frame is named by its page number counted from base_ptr, and a pointer
\* to a frame by the same number; NoPage is the null pointer.  Of the memory
\* of a frame the model keeps its first four words and one value for the
\* bytes after them: block_t (pmm.c) puts order in the first word and the
\* list node in the second and third, sblock_t (malloc.c) puts magic, type,
\* bucket or page_order, and free_blocks in the same four words.  mem holds
\* the frames that differ from what the RAM held at boot (r in every word)
\* or, once a frame has been zeroed, from zero.
\* alloc_pages and free_pages take no lock and are modelled as called by one
\* thread at a time.

PAGE_SHIFT == 12

PAGE_SIZE == 4096

BUCKET_COUNT == 9

PAGES_PER_WORD == 64

\* The uint64_t words in one page.
PAGE_WORDS == 512

\* HEAP_SIZE >> PAGE_SHIFT: the pages between HEAP_START and MEMORY_END,
\* which the linker script fixes.
HeapPages == 520

\* mm_bitmap.size, in bytes.
BitmapSize == HeapPages \div 8

\* (base_ptr - HEAP_START) >> PAGE_SHIFT.
BitmapPages == (BitmapSize + PAGE_SIZE - 1) \div PAGE_SIZE

\* range in pmm_init: (max_ptr - base_ptr) >> PAGE_SHIFT.
Range == HeapPages - BitmapPages

Pages == 0..(Range - 1)

NoPage == -1

\* The words of mm_bitmap.map that hold the bits of the frames.
MapWords == 0..(Range \div PAGES_PER_WORD)

\* A word with every bit set.
ONES == UINT64_MAX

\* What a client stores in memory it fills: 0x55 in every byte.
DATA == 1431655765

\* A pointer to a list node or to nil: 8-byte aligned, bit 3 set.
LINK == 1073741832

\* What the RAM holds when the kernel starts.
BootWords == {0, ONES}

\* 1 << n on an int, for a shift count up to 63, as the bits of the 64-bit
\* word it converts to.  A count above 31 is undefined: the build either
\* shifts a 32-bit register (sllw: the count modulo 32, the result
\* sign-extended) or a 64-bit register (sll).
Builds == {"sllw", "sll"}

\* A load from an address that is not 8-byte aligned either is performed
\* or traps (scause 4), whichever the hart implements.
Misaligned == {"load", "trap"}

int_shl(sh, n) ==
    IF sh = "sllw"
    THEN IF n % 32 = 31 THEN 31..63 ELSE {n % 32}
    ELSE {n}

Low(S) == CHOOSE k \in S : \A j \in S : k <= j

BITMAP_MASK_GEQ(sh, n) == Low(int_shl(sh, n))..63

BITMAP_MASK_LT(sh, n) == 0..(Low(int_shl(sh, n)) - 1)

PAGE_NUM_TO_INDEX(p) == p \div PAGES_PER_WORD

PAGE_NUM_TO_OFFSET(p) == p % PAGES_PER_WORD

\* PAGE_NUM_TO_INDEX(p + size) as the preprocessor expands it:
\* (p + size / PAGES_PER_WORD).
PAGE_NUM_TO_INDEX_sum(p, size) == p + (size \div PAGES_PER_WORD)

ALLOCATED(P, p) ==
    \E b \in int_shl(P.sh, PAGE_NUM_TO_OFFSET(p)) :
        PAGES_PER_WORD * PAGE_NUM_TO_INDEX(p) + b \in P.map

WordBits(w, S) == {PAGES_PER_WORD * w + b : b \in S}

\* v | mask and v & mask on a word of a frame, for a mask of the bits S.
word_or(v, S) ==
    IF S = {} THEN v
    ELSE IF Cardinality(S) >= 31 THEN ONES
    ELSE LET m == 2 ^ Cardinality(S) IN (v \div m) * m + m - 1

word_and(v, S) ==
    IF S = {} \/ Low(S) >= 31 THEN 0
    ELSE LET m == 2 ^ Low(S) IN (v \div m) * m

\* mm_bitmap.map[w] is a word of the bitmap up to the last of MapWords,
\* then padding of the bitmap's pages, then the memory of the frames.
FrameOf(w) == (w - BitmapPages * PAGE_WORDS) \div PAGE_WORDS

FrameWordOf(w) == (w - BitmapPages * PAGE_WORDS) % PAGE_WORDS

\* The memory of a frame after one of its first four words is stored.
frame_store(m, i, v) ==
    IF i = 0 THEN [m EXCEPT !.w0 = v]
    ELSE IF i = 1 THEN [m EXCEPT !.w1 = v]
    ELSE IF i = 2 THEN [m EXCEPT !.w2 = v]
    ELSE IF i = 3 THEN [m EXCEPT !.w3 = v]
    ELSE m

frame_load(m, i) ==
    IF i = 0 THEN m.w0
    ELSE IF i = 1 THEN m.w1
    ELSE IF i = 2 THEN m.w2
    ELSE IF i = 3 THEN m.w3
    ELSE m.body

\* bzero of a frame.
ZeroFrame == [w0 |-> 0, w1 |-> 0, w2 |-> 0, w3 |-> 0, body |-> 0]

\* A frame whose every byte holds the same value.
FilledFrame(v) == [w0 |-> v, w1 |-> v, w2 |-> v, w3 |-> v, body |-> v]

\* A frame that mem does not mention.
Unwritten(P, f) == IF f \in P.zeroed THEN ZeroFrame ELSE FilledFrame(P.r)

Mem(P, f) == IF f \in DOMAIN P.mem THEN P.mem[f] ELSE Unwritten(P, f)

Put(P, f, m) ==
    [P EXCEPT !.mem = IF m = Unwritten(P, f)
                      THEN [g \in (DOMAIN @) \ {f} |-> @[g]]
                      ELSE (f :> m) @@ @]

\* mm_bitmap.map[w] |= mask
map_or(P, w, S) ==
    IF w \in MapWords THEN [P EXCEPT !.map = @ \cup WordBits(w, S)]
    ELSE IF w < BitmapPages * PAGE_WORDS \/ FrameOf(w) \notin Pages THEN P
    ELSE LET m == Mem(P, FrameOf(w))
         IN Put(P, FrameOf(w),
                frame_store(m, FrameWordOf(w),
                            word_or(frame_load(m, FrameWordOf(w)), S)))

\* mm_bitmap.map[w] &= mask
map_and(P, w, S) ==
    IF w \in MapWords
    THEN [P EXCEPT !.map = @ \ WordBits(w, (0..(PAGES_PER_WORD - 1)) \ S)]
    ELSE IF w < BitmapPages * PAGE_WORDS \/ FrameOf(w) \notin Pages THEN P
    ELSE LET m == Mem(P, FrameOf(w))
         IN Put(P, FrameOf(w),
                frame_store(m, FrameWordOf(w),
                            word_and(frame_load(m, FrameWordOf(w)), S)))

\* The frame f after the words a..b of the map are set to v.
frame_fill(P, f, a, b, v) ==
    LET hit(i) == BitmapPages * PAGE_WORDS + f * PAGE_WORDS + i \in a..b
        m == Mem(P, f)
    IN [w0 |-> IF hit(0) THEN v ELSE m.w0,
        w1 |-> IF hit(1) THEN v ELSE m.w1,
        w2 |-> IF hit(2) THEN v ELSE m.w2,
        w3 |-> IF hit(3) THEN v ELSE m.w3,
        body |-> m.body]

RECURSIVE frames_fill(_, _, _, _, _)
frames_fill(P, f, a, b, v) ==
    IF f \notin Pages \/ BitmapPages * PAGE_WORDS + f * PAGE_WORDS > b THEN P
    ELSE frames_fill(Put(P, f, frame_fill(P, f, a, b, v)), f + 1, a, b, v)

\* while (++start_idx < end_idx) mm_bitmap.map[start_idx] = v, for the words
\* a..b and v = ~0L or 0L.
map_fill(P, a, b, v) ==
    LET inmap == (a..b) \cap MapWords
        bits == UNION {WordBits(w, 0..(PAGES_PER_WORD - 1)) : w \in inmap}
    IN frames_fill([P EXCEPT !.map = IF v = 0 THEN @ \ bits ELSE @ \cup bits],
                   0, a, b, v)

bitmap_alloc(P, p, size) ==
    LET start_idx == PAGE_NUM_TO_INDEX(p)
        start_off == PAGE_NUM_TO_OFFSET(p)
        end_idx == PAGE_NUM_TO_INDEX_sum(p, size)
        end_off == PAGE_NUM_TO_OFFSET(p + size)
    IN IF start_idx = end_idx
       THEN map_or(P, start_idx, BITMAP_MASK_GEQ(P.sh, start_off)
                                 \cap BITMAP_MASK_LT(P.sh, end_off))
       ELSE map_or(map_fill(map_or(P, start_idx, BITMAP_MASK_GEQ(P.sh, start_off)),
                            start_idx + 1, end_idx - 1, ONES),
                   end_idx,
                   BITMAP_MASK_LT(P.sh, end_off))

bitmap_free(P, p, size) ==
    LET start_idx == PAGE_NUM_TO_INDEX(p)
        start_off == PAGE_NUM_TO_OFFSET(p)
        end_idx == PAGE_NUM_TO_INDEX_sum(p, size)
        end_off == PAGE_NUM_TO_OFFSET(p + size)
    IN IF start_idx = end_idx
       THEN map_and(P, start_idx, BITMAP_MASK_LT(P.sh, start_off)
                                  \cup BITMAP_MASK_GEQ(P.sh, end_off))
       ELSE map_and(map_fill(map_and(P, start_idx, BITMAP_MASK_LT(P.sh, start_off)),
                             start_idx + 1, end_idx - 1, 0),
                    end_idx,
                    BITMAP_MASK_GEQ(P.sh, end_off))

\* The kernel stops: an assertion fails, or a load or store through a word
\* that is no pointer traps and s_exc_handler panics.
Fault(P, msg) == [P EXCEPT !.fault = msg]

\* list_push_head(&buckets[i], &block->list_node) of lib/list.c:
\* list_insert_before the head, or nil when the list is empty.
bucket_push_head(P, i, x) ==
    LET linked == Put(P, x, [Mem(P, x) EXCEPT !.w1 = LINK, !.w2 = LINK])
    IN IF P.list[i] = <<>> THEN [linked EXCEPT !.list[i] = <<x>>]
       ELSE LET before == Head(P.list[i])
            IN IF Mem(P, before).w1 # LINK
               THEN Fault(P, "list_insert_before: before->prev->next")
               ELSE [Put(linked, before, [Mem(linked, before) EXCEPT !.w1 = LINK])
                        EXCEPT !.list[i] = <<x>> \o @]

\* list_pop_head(&buckets[i]): list_delete of the head.
bucket_pop_head(P, i) ==
    LET x == Head(P.list[i])
        rest == Tail(P.list[i])
    IN IF Mem(P, x).w1 # LINK THEN Fault(P, "list_delete: x->prev->next")
       ELSE IF Mem(P, x).w2 # LINK THEN Fault(P, "list_delete: x->next->prev")
       ELSE IF rest = <<>> THEN [P EXCEPT !.list[i] = rest]
       ELSE [Put(P, Head(rest), [Mem(P, Head(rest)) EXCEPT !.w1 = LINK])
                EXCEPT !.list[i] = rest]

\* The buckets from which alloc_pages(order) can take a block.
NonEmpty(P, order) == {i \in order..(BUCKET_COUNT - 1) : list_size(P.list[i]) # 0}

\* The while loop of alloc_pages: the right halves of the block at x, from
\* order i - 1 down to order, go to the head of their buckets.  Their order
\* field is not written.
RECURSIVE alloc_pages_split(_, _, _, _)
alloc_pages_split(P, x, i, order) ==
    IF i = order \/ P.fault # "none" THEN P
    ELSE alloc_pages_split(bucket_push_head(P, i - 1, x + 2 ^ (i - 1)),
                           x, i - 1, order)

bzero_pages(P, x, n) ==
    [P EXCEPT !.mem = [g \in (DOMAIN @) \ (x..(x + n - 1)) |-> @[g]],
              !.zeroed = IF P.r = 0 THEN @ ELSE @ \cup (x..(x + n - 1))]

\* alloc_pages(order): the allocator afterwards and the pointer returned.
alloc_pages(P, order) ==
    IF NonEmpty(P, order) = {} THEN [P |-> P, ptr |-> NoPage]
    ELSE LET i == Low(NonEmpty(P, order))
             free_block == list_head(P.list[i])
             popped == bucket_pop_head(P, i)
             split == alloc_pages_split(popped, free_block, i, order)
         IN IF split.fault # "none" THEN [P |-> split, ptr |-> NoPage]
            ELSE [P |-> bzero_pages(bitmap_alloc(split, free_block, 2 ^ order),
                                    free_block, 2 ^ order),
                  ptr |-> free_block]

\* The 8 bytes that start s bytes into the word lo and end in the word hi,
\* 0 < s < 8: zero exactly when the bytes taken from both are zero, else a
\* value that is no order.
load_unaligned(lo, hi, s) ==
    IF s < 4
    THEN IF hi % (256 ^ s) = 0 THEN lo \div (256 ^ s) ELSE ONES
    ELSE IF hi = 0 /\ lo \notin {ONES, DATA} THEN 0 ELSE ONES

\* free_pages takes the buddy mask bytes, not mask pages, before or after
\* the block: (uintptr_t)freed_block + (p & mask ? -mask : mask).
\* The frame that address lies in:
buddy_page(p, order) == IF (p \div 2 ^ order) % 2 = 1 THEN p - 1 ELSE p

\* buddy_block->order: the word read at that address.
buddy_order(P, p, order) ==
    LET mask == 2 ^ order
        m == Mem(P, p)
    IN IF (p \div mask) % 2 = 1
       THEN \* the last mask bytes of the frame before, then this frame
            IF mask >= 8 THEN Mem(P, p - 1).body
            ELSE IF Mem(P, p - 1).body = 0 /\ m.w0 = 0 THEN 0
            ELSE ONES
       ELSE IF mask < 8 THEN load_unaligned(m.w0, m.w1, mask)
            ELSE IF mask = 8 THEN m.w1
            ELSE IF mask = 16 THEN m.w2
            ELSE m.body

\* while (order < BUCKET_COUNT)
free_pages_loop(order) == order < BUCKET_COUNT

\* The code after the loop: freed_block->order = order and
\* list_push_head(&buckets[order], &freed_block->list_node).
free_pages_push(freed, p, order) ==
    bucket_push_head(Put(freed, p, [Mem(freed, p) EXCEPT !.w0 = order]),
                     order, p)

\* One round of the while loop of free_pages and the code after the loop.
\* When the word read as the buddy's order equals order, list_delete is
\* handed the 16 bytes after that word, which are no list node: the
\* assertion on list->size fails, or x->prev->next is a store through a
\* word that is no pointer.  The loop never starts a second round.
free_pages(P, p, order) ==
    LET freed == bitmap_free(P, p, 2 ^ order)
    IN IF ~free_pages_loop(order) THEN free_pages_push(freed, p, order)
       ELSE IF ~ALLOCATED(freed, buddy_page(p, order))
               /\ 2 ^ order < 8 /\ P.ma = "trap"
       THEN Fault(freed, "buddy_block->order: load address misaligned")
       ELSE IF ~ALLOCATED(freed, buddy_page(p, order))
               /\ buddy_order(freed, p, order) = order
       THEN IF list_size(freed.list[order]) = 0
            THEN Fault(freed, "list_delete: list->size > 0")
            ELSE Fault(freed, "list_delete: x->prev->next")
       ELSE free_pages_push(freed, p, order)

\* The while loop of pmm_init: the largest block that fits, from min on.
RECURSIVE pmm_init_blocks(_, _, _)
pmm_init_blocks(P, min, range) ==
    IF range = 0 THEN P
    ELSE LET i == CHOOSE k \in 0..(BUCKET_COUNT - 1) :
                      /\ 2 ^ k <= range
                      /\ \A j \in (k + 1)..(BUCKET_COUNT - 1) : 2 ^ j > range
         IN pmm_init_blocks(bucket_push_head(Put(P, min, [Mem(P, min) EXCEPT !.w0 = i]),
                                             i, min),
                            min + 2 ^ i, range - 2 ^ i)

\* pmm_init() in a build sh, on a hart ma and RAM that holds r in every word.
pmm_init(sh, ma, r) ==
    LET boot == [sh |-> sh, ma |-> ma, r |-> r, zeroed |-> {},
                 map |-> (0..(8 * BitmapSize - 1))
                         \cup (IF r = 0 THEN {}
                               ELSE UNION {WordBits(w, 0..(PAGES_PER_WORD - 1))
                                           : w \in MapWords}),
                 mem |-> <<>>,
                 list |-> [i \in 0..(BUCKET_COUNT - 1) |-> <<>>],
                 fault |-> "none"]
    IN pmm_init_blocks(bitmap_free(boot, 0, Range), 0, Range)

----------------------------------------------------------------------------
\* The page allocator and its clients

\* Blocks a client may hold at a time.
MaxHeld == 3

\* Allocations the clients make in a run.
MaxCalls == 3

\* The orders the clients ask for.
Orders == {0, 1, 8}

\* The words a client fills a block with: 0x55 in every byte, or the
\* number 8 in every word.
Fills == {DATA, BUCKET_COUNT - 1}

MmRunning == mm_pc # "boot" /\ pm.fault = "none"

\* How far the calls since pmm_init are the calls alloc_pages(0) three
\* times, then free_pages of the second, the third and the first block.
scenario_alloc(sc, order, ptr) ==
    IF sc.on /\ order = 0 /\ ptr # NoPage /\ Len(sc.p) < 3 /\ sc.freed = 0
    THEN [sc EXCEPT !.p = Append(@, ptr)]
    ELSE [sc EXCEPT !.on = FALSE]

scenario_free(sc, ptr) ==
    IF sc.on /\ Len(sc.p) = 3
       /\ ptr = sc.p[IF sc.freed = 0 THEN 2 ELSE IF sc.freed = 1 THEN 3 ELSE 1]
       /\ sc.freed < 3
    THEN [sc EXCEPT !.freed = @ + 1]
    ELSE [sc EXCEPT !.on = FALSE]

\* main() calls pmm_init().
main_pmm_init ==
    /\ mm_pc = "boot"
    /\ \E sh \in Builds, ma \in Misaligned, r \in BootWords :
         pm' = pmm_init(sh, ma, r)
    /\ mm_pc' = "pmm"
    /\ mm_ev' = [op |-> "pmm_init", order |-> 0, ptr |-> NoPage]
    /\ UNCHANGED <<held, scenario, mm_calls>>
    /\ UNCHANGED <<hp, live>>
    /\ UNCHANGED vm
    /\ UNCHANGED call
    /\ UNCHANGED sched_vars
    /\ UNCHANGED trap_vars

\* A client calls alloc_pages(order) and keeps the block.
alloc_pages_call ==
    /\ MmRunning
    /\ Cardinality(held) < MaxHeld
    /\ mm_calls < MaxCalls
    /\ mm_calls' = mm_calls + 1
    /\ \E order \in Orders :
         LET a == alloc_pages(pm, order)
         IN /\ pm' = a.P
            /\ held' = IF a.ptr = NoPage THEN held
                       ELSE held \cup {[ptr |-> a.ptr, order |-> order]}
            /\ scenario' = scenario_alloc(scenario, order, a.ptr)
            /\ mm_ev' = [op |-> "alloc_pages", order |-> order, ptr |-> a.ptr]
    /\ UNCHANGED mm_pc
    /\ UNCHANGED <<hp, live>>
    /\ UNCHANGED vm
    /\ UNCHANGED call
    /\ UNCHANGED sched_vars
    /\ UNCHANGED trap_vars

\* A client fills a block it holds.
fill_pages ==
    /\ MmRunning
    /\ \E b \in held, v \in Fills :
         /\ Mem(pm, b.ptr) # FilledFrame(v)
         /\ pm' = [pm EXCEPT !.mem = [f \in b.ptr..(b.ptr + 2 ^ b.order - 1)
                                         |-> FilledFrame(v)] @@ @]
         /\ mm_ev' = [op |-> "fill_pages", order |-> b.order, ptr |-> b.ptr]
    /\ UNCHANGED <<mm_pc, held, scenario, mm_calls>>
    /\ UNCHANGED <<hp, live>>
    /\ UNCHANGED vm
    /\ UNCHANGED call
    /\ UNCHANGED sched_vars
    /\ UNCHANGED trap_vars

\* A client calls free_pages(ptr, order) for a block it holds.
free_pages_call ==
    /\ MmRunning
    /\ \E b \in held :
         /\ pm' = free_pages(pm, b.ptr, b.order)
         /\ held' = held \ {b}
         /\ scenario' = scenario_free(scenario, b.ptr)
         /\ mm_ev' = [op |-> "free_pages", order |-> b.order, ptr |-> b.ptr]
    /\ UNCHANGED <<mm_pc, mm_calls>>
    /\ UNCHANGED <<hp, live>>
    /\ UNCHANGED vm
    /\ UNCHANGED call
    /\ UNCHANGED sched_vars
    /\ UNCHANGED trap_vars

\* A client calls free_pages(alloc_pages(order), order).
free_pages_alloc_pages ==
    /\ MmRunning
    /\ mm_calls < MaxCalls
    /\ mm_calls' = mm_calls + 1
    /\ \E order \in Orders :
         LET a == alloc_pages(pm, order)
         IN /\ a.ptr # NoPage
            /\ pm' = free_pages(a.P, a.ptr, order)
            /\ mm_ev' = [op |-> "free_pages(alloc_pages)", order |-> order,
                         ptr |-> a.ptr]
    /\ scenario' = [scenario EXCEPT !.on = FALSE]
    /\ UNCHANGED <<mm_pc, held>>
    /\ UNCHANGED <<hp, live>>
    /\ UNCHANGED vm
    /\ UNCHANGED call
    /\ UNCHANGED sched_vars
    /\ UNCHANGED trap_vars

\* The frames at which the ranges start that the bitmap is exercised with:
\* every offset 0..63 in the second word of the bitmap.
BitmapStarts == PAGES_PER_WORD..(2 * PAGES_PER_WORD - 1)

\* bitmap_alloc(p, 1 << order) on the bitmap as pmm_init leaves it.
bitmap_alloc_call ==
    /\ MmRunning
    /\ mm_ev.op = "pmm_init"
    /\ \E p \in BitmapStarts, order \in 0..(BUCKET_COUNT - 1) :
         /\ pm' = bitmap_alloc(pm, p, 2 ^ order)
         /\ mm_ev' = [op |-> "bitmap_alloc", order |-> order, ptr |-> p]
    /\ UNCHANGED <<mm_pc, held, scenario, mm_calls>>
    /\ UNCHANGED <<hp, live>>
    /\ UNCHANGED vm
    /\ UNCHANGED call
    /\ UNCHANGED sched_vars
    /\ UNCHANGED trap_vars

\* bitmap_free(p, 1 << order) of the range bitmap_alloc was called for.
bitmap_free_call ==
    /\ MmRunning
    /\ mm_ev.op = "bitmap_alloc"
    /\ pm' = bitmap_free(pm, mm_ev.ptr, 2 ^ mm_ev.order)
    /\ mm_ev' = [mm_ev EXCEPT !.op = "bitmap_free"]
    /\ UNCHANGED <<mm_pc, held, scenario, mm_calls>>
    /\ UNCHANGED <<hp, live>>
    /\ UNCHANGED vm
    /\ UNCHANGED call
    /\ UNCHANGED sched_vars
    /\ UNCHANGED trap_vars

\* alloc_pages under preemption.  alloc_pages takes no lock and leaves
\* interrupts as they are: a thread that is in it in thread context may be
\* preempted by the timer tick between any two of its loads and stores, and
\* the thread that runs next may call alloc_pages too.  The call is taken
\* in three steps: the search for a bucket with the load of the head of its
\* list; list_delete of that block; the split, bitmap_alloc, bzero and the
\* return.

\* The threads that call alloc_page().
NumCallers == 2

\* Calls of alloc_page() the threads make in a run.
MaxAllocs == 4

Callers == 1..NumCallers

NoCall == [pc |-> "-", i |-> 0, block |-> NoPage, own |-> {}]

\* list_delete(&buckets[i], &x->list_node) for a block x that was the head
\* of the list when it was loaded.  When another thread has deleted x in
\* between and the words of its list node are still links, the stores put
\* the same links in the neighbours again; list->size, decremented a second
\* time, is not kept apart from the nodes.
bucket_delete(P, i, x) ==
    IF list_size(P.list[i]) = 0 THEN Fault(P, "list_delete: list->size > 0")
    ELSE IF Head(P.list[i]) = x THEN bucket_pop_head(P, i)
    ELSE IF Mem(P, x).w1 # LINK THEN Fault(P, "list_delete: x->prev->next")
    ELSE IF Mem(P, x).w2 # LINK THEN Fault(P, "list_delete: x->next->prev")
    ELSE [P EXCEPT !.list[i] = SelectSeq(@, LAMBDA y : y # x)]

\* The block list_delete is given: the head that was loaded.
alloc_pages_block(P, c) == c.block

\* alloc_pages(0), lines 248 to 256 up to the load of the head in
\* list_pop_head.
alloc_pages_head(c) ==
    /\ MmRunning
    /\ call[c].pc = "-"
    /\ mm_calls < MaxAllocs
    /\ mm_calls' = mm_calls + 1
    /\ NonEmpty(pm, 0) # {}
    /\ call' = [call EXCEPT ![c].pc = "list_delete",
                            ![c].i = Low(NonEmpty(pm, 0)),
                            ![c].block = list_head(pm.list[Low(NonEmpty(pm, 0))])]
    /\ mm_ev' = [op |-> "list_head", order |-> 0, ptr |-> call'[c].block]
    /\ UNCHANGED <<mm_pc, pm, held, scenario, hp, live, vm>>
    /\ UNCHANGED sched_vars
    /\ UNCHANGED trap_vars

\* alloc_pages(0): list_delete in list_pop_head.
alloc_pages_delete(c) ==
    /\ MmRunning
    /\ call[c].pc = "list_delete"
    /\ pm' = bucket_delete(pm, call[c].i, alloc_pages_block(pm, call[c]))
    /\ call' = [call EXCEPT ![c].pc = "bitmap_alloc",
                            ![c].block = alloc_pages_block(pm, call[c])]
    /\ mm_ev' = [op |-> "list_delete", order |-> 0, ptr |-> call'[c].block]
    /\ UNCHANGED <<mm_pc, held, scenario, mm_calls, hp, live, vm>>
    /\ UNCHANGED sched_vars
    /\ UNCHANGED trap_vars

\* alloc_pages(0), lines 258 to 278: the split, bitmap_alloc, bzero, and
\* the return of the block to the caller.
alloc_pages_return(c) ==
    /\ MmRunning
    /\ call[c].pc = "bitmap_alloc"
    /\ pm' = LET split == alloc_pages_split(pm, call[c].block, call[c].i, 0)
             IN IF split.fault # "none" THEN split
                ELSE bzero_pages(bitmap_alloc(split, call[c].block, 1),
                                 call[c].block, 1)
    /\ call' = [call EXCEPT ![c].pc = "-",
                            ![c].own = @ \cup {call[c].block}]
    /\ mm_ev' = [op |-> "alloc_pages", order |-> 0, ptr |-> call[c].block]
    /\ UNCHANGED <<mm_pc, held, scenario, mm_calls, hp, live, vm>>
    /\ UNCHANGED sched_vars
    /\ UNCHANGED trap_vars

\* free_page(t) of a frame the thread c was handed and has used, as
\* free_thread calls it in the schedule tail: interrupts are off, so that
\* no other thread runs during the call.
free_pages_own(c) ==
    /\ MmRunning
    /\ call[c].pc = "-"
    /\ \E x \in call[c].own :
         /\ pm' = free_pages(Put(pm, x, FilledFrame(DATA)), x, 0)
         /\ call' = [call EXCEPT ![c].own = @ \ {x}]
         /\ mm_ev' = [op |-> "free_pages", order |-> 0, ptr |-> x]
    /\ UNCHANGED <<mm_pc, held, scenario, mm_calls, hp, live, vm>>
    /\ UNCHANGED sched_vars
    /\ UNCHANGED trap_vars

----------------------------------------------------------------------------
\* mm/malloc.c
\*
\* A block is named by the frame of its superblock and its index in the
\* superblock; the block of a UNIBLOCK has the index Uni.  The free list of
\* a bucket is the sequence of its blocks, the head first.  The lock of a
\* bucket is free whenever a call starts: one client calls at a time.

\* 0x9a548eed, less 2^31: the values of the model have 32 bits, and no
\* other word of the model equals it.
SBLOCK_MAGIC == 441749229

SBLOCK_MULTIBLOCK == 0

SBLOCK_UNIBLOCK == 1

\* sizeof(sblock_t)
SBLOCK_SIZE == 32

MIN_BLOCK_ORDER == 4

MAX_BLOCK_ORDER == PAGE_SHIFT - 1

NUM_BUCKET == MAX_BLOCK_ORDER - MIN_BLOCK_ORDER

Uni == -1

NoBlock == [sb |-> NoPage, slot |-> Uni]

\* buckets[i].block_size as malloc_init sets it.
bucket_block_size(i) == 2 ^ (i + MIN_BLOCK_ORDER)

\* &buckets[i], and the i of such an address.
bucket_addr(i) == LINK + 72 * (i + 1)

bucket_index(a) == ((a - LINK) \div 72) - 1

is_bucket(a) == \E i \in 0..(NUM_BUCKET - 1) : a = bucket_addr(i)

\* lib/stdint.h
CEIL(a, b) == (a \div b) + (IF a % b > 0 THEN 1 ELSE 0)

RECURSIVE page_order_loop(_, _)
page_order_loop(size, order) ==
    IF size = 0 THEN order ELSE page_order_loop(size \div 2, order + 1)

\* include/mm/pmm.h: the order of the block that holds size bytes.
page_order(size) == page_order_loop((size - 1) \div PAGE_SIZE, 0)

is_sblock(P, sb) == Mem(P, sb).w0 = SBLOCK_MAGIC

\* (PAGE_SIZE - sizeof(sblock_t)) / bucket->block_size
blocks_in_page(i) == (PAGE_SIZE - SBLOCK_SIZE) \div bucket_block_size(i)

\* The for loop of malloc: the first bucket whose block_size is above size.
malloc_bucket(size) ==
    Cardinality({i \in 0..(NUM_BUCKET - 1) : size >= bucket_block_size(i)})

\* The list node of a block lies in the block: it is a node as long as the
\* bytes of the frame after the header are as malloc and free left them.
block_node_ok(P, b) == Mem(P, b.sb).body = 0

\* malloc(size) for a request too large for any bucket.
malloc_uniblock_sb(S, a, sb_page_order) ==
    IF a.ptr = NoPage THEN [pm |-> a.P, hp |-> S.hp, ptr |-> NoBlock]
    ELSE [pm |-> Put(a.P, a.ptr, [Mem(a.P, a.ptr) EXCEPT
                                     !.w0 = SBLOCK_MAGIC,
                                     !.w1 = SBLOCK_UNIBLOCK,
                                     !.w2 = sb_page_order]),
          hp |-> S.hp,
          ptr |-> [sb |-> a.ptr, slot |-> Uni]]

malloc_uniblock_order(S, sb_page_order) ==
    malloc_uniblock_sb(S, alloc_pages(S.pm, sb_page_order), sb_page_order)

malloc_uniblock(S, size) ==
    malloc_uniblock_order(S, page_order(CEIL(size + SBLOCK_SIZE, PAGE_SIZE)))

\* The bucket i after a new superblock is carved for it, when its free list
\* is empty.
malloc_carve_sb(S, a, i) ==
    IF a.ptr = NoPage THEN [pm |-> a.P, hp |-> S.hp, full |-> TRUE]
    ELSE [pm |-> Put(a.P, a.ptr, [Mem(a.P, a.ptr) EXCEPT
                                     !.w0 = SBLOCK_MAGIC,
                                     !.w1 = SBLOCK_MULTIBLOCK,
                                     !.w2 = bucket_addr(i),
                                     !.w3 = blocks_in_page(i)]),
          hp |-> [S.hp EXCEPT ![i] =
                    [j \in 1..blocks_in_page(i) |->
                        [sb |-> a.ptr, slot |-> j - 1]]],
          full |-> FALSE]

malloc_carve(S, i) ==
    IF list_size(S.hp[i]) # 0 THEN S
    ELSE malloc_carve_sb(S, alloc_pages(S.pm, 0), i)

\* malloc(size) from bucket i.
\* The rest of malloc(size) from bucket i: the head of the free list leaves
\* it.
malloc_pop(c, i, block) ==
    IF c.full \/ c.pm.fault # "none"
    THEN [pm |-> c.pm, hp |-> c.hp, ptr |-> NoBlock]
    ELSE IF ~block_node_ok(c.pm, block)
    THEN [pm |-> Fault(c.pm, "list_delete: x->prev->next"),
          hp |-> c.hp, ptr |-> NoBlock]
    ELSE IF ~is_sblock(c.pm, block.sb)
    THEN [pm |-> Fault(c.pm, "block_to_sblock: is_sblock(sb)"),
          hp |-> c.hp, ptr |-> NoBlock]
    ELSE IF Mem(c.pm, block.sb).w1 # SBLOCK_MULTIBLOCK
    THEN [pm |-> Fault(c.pm, "malloc: sb->type == SBLOCK_MULTIBLOCK"),
          hp |-> c.hp, ptr |-> NoBlock]
    ELSE [pm |-> Put(c.pm, block.sb,
                     [Mem(c.pm, block.sb) EXCEPT !.w3 = dec64(@)]),
          hp |-> [c.hp EXCEPT ![i] = list_delete_head(@)],
          ptr |-> block]

malloc_carved(c, i) ==
    malloc_pop(c, i, IF c.hp[i] = <<>> THEN NoBlock ELSE list_head(c.hp[i]))

\* malloc(size) from bucket i.
malloc_multiblock(S, i) ==
    malloc_carved(malloc_carve([pm |-> S.pm, hp |-> S.hp, full |-> FALSE], i), i)

malloc(S, size) ==
    IF size = 0 THEN [pm |-> S.pm, hp |-> S.hp, ptr |-> NoBlock]
    ELSE IF malloc_bucket(size) = NUM_BUCKET THEN malloc_uniblock(S, size)
    ELSE malloc_multiblock(S, malloc_bucket(size))

\* The free list after list_delete of every block of the superblock sb.
list_delete_blocks(list, sb) == SelectSeq(list, LAMBDA x : x.sb # sb)

\* The MULTIBLOCK case of free(): the block goes to the head of the free
\* list; when every block of the superblock is free again, they leave the
\* list and the page goes back to the page allocator.
free_multiblock(S, b) ==
    LET sb == Mem(S.pm, b.sb)
        i == bucket_index(sb.w2)
        bpsb == blocks_in_page(i)
        pushed == <<b>> \o S.hp[i]
        counted == Put(S.pm, b.sb, [sb EXCEPT !.w3 = inc64(@)])
        mine == {b.sb} \X (0..(bpsb - 1))
        onlist == {<<pushed[k].sb, pushed[k].slot>> : k \in 1..Len(pushed)}
    IN IF S.hp[i] # <<>> /\ ~block_node_ok(S.pm, list_head(S.hp[i]))
       THEN [pm |-> Fault(S.pm, "list_insert_before: before->prev->next"),
             hp |-> S.hp]
       ELSE IF inc64(sb.w3) < bpsb
       THEN [pm |-> counted, hp |-> [S.hp EXCEPT ![i] = pushed]]
       ELSE IF inc64(sb.w3) # bpsb
       THEN [pm |-> Fault(counted, "free: sb->free_blocks == bpsb"), hp |-> S.hp]
       ELSE IF ~(mine \subseteq onlist)
       THEN [pm |-> Fault(counted, "list_delete: x->prev->next"), hp |-> S.hp]
       ELSE [pm |-> free_pages(counted, b.sb, 0),
             hp |-> [S.hp EXCEPT ![i] = list_delete_blocks(pushed, b.sb)]]

free(S, b) ==
    LET sb == Mem(S.pm, b.sb)
    IN IF ~is_sblock(S.pm, b.sb)
       THEN [pm |-> Fault(S.pm, "block_to_sblock: is_sblock(sb)"), hp |-> S.hp]
       ELSE IF sb.w1 = SBLOCK_MULTIBLOCK /\ ~is_bucket(sb.w2)
       THEN [pm |-> Fault(S.pm, "block_to_sblock: sb->bucket->block_size"),
             hp |-> S.hp]
       ELSE IF ~(\/ sb.w1 = SBLOCK_MULTIBLOCK /\ b.slot # Uni
                 \/ sb.w1 = SBLOCK_UNIBLOCK /\ b.slot = Uni)
       THEN [pm |-> Fault(S.pm, "block_to_sblock: type and offset"), hp |-> S.hp]
       ELSE IF sb.w1 = SBLOCK_UNIBLOCK
       THEN IF sb.w2 \notin 0..(BUCKET_COUNT - 1)
            THEN [pm |-> Fault(S.pm, "free_pages: buckets[order]"), hp |-> S.hp]
            ELSE [pm |-> free_pages(S.pm, b.sb, sb.w2), hp |-> S.hp]
       ELSE free_multiblock(S, b)

\* The calls of lock_acquire and lock_release on the bucket locks that a
\* call of malloc or free makes, in the order it makes them.
lock_acquire_bucket(i) == [op |-> "lock_acquire", l |-> i]

lock_release_bucket(i) == [op |-> "lock_release", l |-> i]

\* A malloc that returns null with the lock of the bucket still held.
malloc_null_locked(i) == <<>>

\* if (sb == null) { lock_release(&bucket->lock); return null; }
malloc_null_release(i) == <<lock_release_bucket(i)>>

\* malloc(size): no lock for size 0 and for a UNIBLOCK; else the lock of
\* the bucket from line 188 to the return of null or of the block.  A call
\* that panics under the lock does not come to release it.
malloc_locks_bucket(c, r, i) ==
    <<lock_acquire_bucket(i)>>
    \o (IF c.pm.fault # "none" THEN <<>>
        ELSE IF c.full THEN malloc_null_release(i)
        ELSE IF r.pm.fault # "none" THEN <<>>
        ELSE <<lock_release_bucket(i)>>)

malloc_locks_carve(c, i) == malloc_locks_bucket(c, malloc_carved(c, i), i)

malloc_locks(S, size) ==
    IF size = 0 \/ malloc_bucket(size) = NUM_BUCKET THEN <<>>
    ELSE malloc_locks_carve(malloc_carve([pm |-> S.pm, hp |-> S.hp,
                                          full |-> FALSE],
                                         malloc_bucket(size)),
                            malloc_bucket(size))

\* free(ptr): the lock of sb->bucket around the MULTIBLOCK case.
free_locks_bucket(r, i) ==
    <<lock_acquire_bucket(i)>>
    \o (IF r.pm.fault # "none" THEN <<>> ELSE <<lock_release_bucket(i)>>)

free_locks(S, b) ==
    LET sb == Mem(S.pm, b.sb)
    IN IF \/ ~is_sblock(S.pm, b.sb)
          \/ sb.w1 = SBLOCK_MULTIBLOCK /\ ~is_bucket(sb.w2)
          \/ ~(\/ sb.w1 = SBLOCK_MULTIBLOCK /\ b.slot # Uni
               \/ sb.w1 = SBLOCK_UNIBLOCK /\ b.slot = Uni)
          \/ sb.w1 = SBLOCK_UNIBLOCK
       THEN <<>>
       ELSE free_locks_bucket(free_multiblock(S, b), bucket_index(sb.w2))

\* alloc_pages(order) called until it returns null, for order 8 down to 0:
\* other clients of the page allocator take every free block.
RECURSIVE alloc_pages_all(_, _)
alloc_pages_all(a, order) ==
    IF a.P.fault # "none" THEN a.P
    ELSE IF a.ptr # NoPage THEN alloc_pages_all(alloc_pages(a.P, order), order)
    ELSE IF order = 0 THEN a.P
    ELSE alloc_pages_all(alloc_pages(a.P, order - 1), order - 1)

\* Blocks the clients of malloc hold at a time.
MaxLive == 2

\* The sizes the clients ask malloc for.
Sizes == {16, 512, 1024, 2 * PAGE_SIZE, 3 * PAGE_SIZE}

HeapRunning == mm_pc = "heap" /\ pm.fault = "none"

\* The frames a client stores to when it fills the n bytes of the block b
\* of a UNIBLOCK, n a multiple of PAGE_SIZE: the rest of the frame of the
\* superblock, the n \div PAGE_SIZE - 1 frames after it, and the first
\* sizeof(sblock_t) bytes of the next one.
write_last(b) == b.sb + (b.n \div PAGE_SIZE)

write_block(P, b) ==
    LET last == IF write_last(b) \in Pages THEN write_last(b) ELSE Range
        own == Put(P, b.sb, [Mem(P, b.sb) EXCEPT !.body = DATA])
        full == [own EXCEPT !.mem = [f \in ((b.sb + 1)..(last - 1))
                                        |-> FilledFrame(DATA)] @@ @]
    IN IF write_last(b) \in Pages
       THEN Put(full, last, [Mem(full, last) EXCEPT !.w0 = DATA, !.w1 = DATA,
                                                    !.w2 = DATA, !.w3 = DATA])
       ELSE Fault(full, "store past the end of the heap")

\* main() calls malloc_init().
main_malloc_init ==
    /\ mm_pc = "pmm"
    /\ pm.fault = "none"
    /\ mm_pc' = "heap"
    /\ hp' = [i \in 0..(NUM_BUCKET - 1) |-> <<>>]
    /\ mm_ev' = [op |-> "malloc_init", order |-> 0, ptr |-> NoPage]
    /\ UNCHANGED <<pm, held, scenario, mm_calls, live>>
    /\ UNCHANGED vm
    /\ UNCHANGED call
    /\ UNCHANGED sched_vars
    /\ UNCHANGED trap_vars

\* A client calls malloc(n) and keeps the block.
\* How far the calls since malloc_init are the calls malloc(16) twice, then
\* free of the two blocks.
scenario_malloc(sc, n, ptr) ==
    IF sc.on /\ n = 16 /\ Len(sc.p) < 2 /\ sc.freed = 0
    THEN [sc EXCEPT !.p = Append(@, ptr)]
    ELSE [sc EXCEPT !.on = FALSE]

scenario_free_block(sc, ptr) ==
    IF sc.on /\ Len(sc.p) = 2 /\ sc.freed < 2 /\ ptr \in {sc.p[1], sc.p[2]}
    THEN [sc EXCEPT !.freed = @ + 1]
    ELSE [sc EXCEPT !.on = FALSE]

malloc_returns(n, a) ==
    /\ pm' = a.pm
    /\ hp' = a.hp
    /\ live' = IF a.ptr = NoBlock THEN live
               ELSE live \cup {[sb |-> a.ptr.sb, slot |-> a.ptr.slot, n |-> n]}
    /\ scenario' = scenario_malloc(scenario, n, a.ptr)
    /\ mm_ev' = [op |-> "malloc", order |-> n, ptr |-> a.ptr.sb,
                 locks |-> malloc_locks([pm |-> pm, hp |-> hp], n)]

malloc_call ==
    /\ HeapRunning
    /\ Cardinality(live) < MaxLive
    /\ mm_calls < MaxCalls
    /\ mm_calls' = mm_calls + 1
    /\ \E n \in Sizes : malloc_returns(n, malloc([pm |-> pm, hp |-> hp], n))
    /\ UNCHANGED <<mm_pc, held>>
    /\ UNCHANGED vm
    /\ UNCHANGED call
    /\ UNCHANGED sched_vars
    /\ UNCHANGED trap_vars

\* A client fills the n bytes of a block it asked malloc for.
fill_block ==
    /\ HeapRunning
    /\ \E b \in live :
         /\ b.slot = Uni
         /\ b.n % PAGE_SIZE = 0
         /\ Mem(pm, b.sb).body # DATA
         /\ pm' = write_block(pm, b)
         /\ mm_ev' = [op |-> "fill_block", order |-> b.n, ptr |-> b.sb]
    /\ UNCHANGED <<mm_pc, held, scenario, mm_calls, hp, live>>
    /\ UNCHANGED vm
    /\ UNCHANGED call
    /\ UNCHANGED sched_vars
    /\ UNCHANGED trap_vars

\* A client calls free(ptr) for a block it holds.
free_returns(b, a) ==
    /\ pm' = a.pm
    /\ hp' = a.hp
    /\ live' = live \ {b}
    /\ scenario' = scenario_free_block(scenario, [sb |-> b.sb, slot |-> b.slot])
    /\ mm_ev' = [op |-> "free", order |-> b.n, ptr |-> b.sb,
                 locks |-> free_locks([pm |-> pm, hp |-> hp],
                                      [sb |-> b.sb, slot |-> b.slot])]

free_call ==
    /\ HeapRunning
    /\ \E b \in live :
         free_returns(b, free([pm |-> pm, hp |-> hp],
                              [sb |-> b.sb, slot |-> b.slot]))
    /\ UNCHANGED <<mm_pc, held, mm_calls>>
    /\ UNCHANGED vm
    /\ UNCHANGED call
    /\ UNCHANGED sched_vars
    /\ UNCHANGED trap_vars

\* The other clients of the page allocator take every free block.
alloc_pages_until_null ==
    /\ HeapRunning
    /\ NonEmpty(pm, 0) # {}
    /\ pm' = alloc_pages_all(alloc_pages(pm, BUCKET_COUNT - 1), BUCKET_COUNT - 1)
    /\ mm_ev' = [op |-> "alloc_pages_until_null", order |-> 0, ptr |-> NoPage]
    /\ scenario' = [scenario EXCEPT !.on = FALSE]
    /\ UNCHANGED <<mm_pc, held, mm_calls, hp, live>>
    /\ UNCHANGED vm
    /\ UNCHANGED call
    /\ UNCHANGED sched_vars
    /\ UNCHANGED trap_vars

\* A client calls free(malloc(n)).
free_malloc_returns(n, ptr, f) ==
    /\ pm' = f.pm
    /\ hp' = f.hp
    /\ mm_ev' = [op |-> "free(malloc)", order |-> n, ptr |-> ptr.sb]

free_malloc_of(n, a) ==
    /\ a.ptr # NoBlock
    /\ free_malloc_returns(n, a.ptr, free([pm |-> a.pm, hp |-> a.hp], a.ptr))

free_malloc ==
    /\ HeapRunning
    /\ mm_calls < MaxCalls
    /\ mm_calls' = mm_calls + 1
    /\ \E n \in Sizes : free_malloc_of(n, malloc([pm |-> pm, hp |-> hp], n))
    /\ scenario' = [scenario EXCEPT !.on = FALSE]
    /\ UNCHANGED <<mm_pc, held, live>>
    /\ UNCHANGED vm
    /\ UNCHANGED call
    /\ UNCHANGED sched_vars
    /\ UNCHANGED trap_vars

----------------------------------------------------------------------------
\* mm/vmm.c: the three-level page tables
\*
\* Addresses are kept as page numbers (the address shifted right by
\* OFFSET_SHIFT) with the offset in the page beside them.  A page-table
\* entry is its physical page number and its set of flag bits; the entry 0
\* has the page number 0 and no flag.  A page table is a frame of the page
\* allocator; pt holds the entries other than 0 of each.

\* VPN_MASK + 1: the entries of a page table.
PTE_COUNT == 512

\* MAX_VADDR >> OFFSET_SHIFT
MAX_VPAGE == 67108864

\* The linker script places the kernel image at 0x80000000 and the heap
\* after it; the sections of the image take SectionPages pages each.
KernelPage == 524288

SectionPages == 1

HeapStartPage == KernelPage + 5 * SectionPages

\* base_ptr >> PAGE_SHIFT: the page number of frame 0.
BasePage == HeapStartPage + BitmapPages

NoPte == [ppn |-> 0, flags |-> {}]

\* VPN(vaddr, level)
VPN(vpage, level) == (vpage \div (PTE_COUNT ^ level)) % PTE_COUNT

\* PADDR_TO_PTE(p) of the frame f, and the frame PTE_TO_PADDR(pte) is.
frame_pte(f) == [ppn |-> BasePage + f, flags |-> {"V"}]

pte_frame(pte) == pte.ppn - BasePage

\* table[i] of the page table in frame t.
Pte(V, t, i) ==
    IF t \in DOMAIN V.pt /\ i \in DOMAIN V.pt[t] THEN V.pt[t][i] ELSE NoPte

Table(V, t) == IF t \in DOMAIN V.pt THEN V.pt[t] ELSE <<>>

\* The frame p as alloc_page returns it: every entry 0.
table_zero(V, p) == [V EXCEPT !.pt = [t \in (DOMAIN @) \ {p} |-> @[t]]]

\* *pte = f[i] for the entries i of the table t that f names.
table_store(V, t, f) ==
    [V EXCEPT !.pt = (t :> (f @@ Table(V, t))) @@ @]

\* *pte = 0
table_clear(V, t, i) ==
    [V EXCEPT !.pt = (t :> [j \in (DOMAIN Table(V, t)) \ {i} |->
                                Table(V, t)[j]]) @@ @]

vm_fault(V, msg) == [V EXCEPT !.pm = Fault(@, msg)]

\* *pte = PADDR_TO_PTE(table) | PTE_V: the entry names the table it is in.
child_frame_table(t, p) == frame_pte(t)

\* *pte = PADDR_TO_PTE(p) | PTE_V for the page p that __walk has allocated
\* for an invalid entry of the table t.
child_frame(t, p) == frame_pte(p)

\* __walk, one level with can_alloc: the entry i of the table t is made
\* valid when it is not.
walk_alloc_page(V, t, i, a) ==
    IF a.P.fault # "none" THEN [V EXCEPT !.pm = a.P]
    ELSE IF a.ptr = NoPage THEN vm_fault(V, "__walk: p != null")
    ELSE table_store(table_zero([V EXCEPT !.pm = a.P], a.ptr), t,
                     [j \in {i} |-> child_frame(t, a.ptr)])

walk_alloc(V, t, i) ==
    IF V.pm.fault # "none" \/ "V" \in Pte(V, t, i).flags THEN V
    ELSE walk_alloc_page(V, t, i, alloc_pages(V.pm, 0))

\* table = (pagetable_t)PTE_TO_PADDR(*pte) after level 2 and after level 1.
walk_level1(V, vpage) == pte_frame(Pte(V, V.root, VPN(vpage, 2)))

walk_level0(V, vpage) == pte_frame(Pte(V, walk_level1(V, vpage), VPN(vpage, 1)))

\* __walk(table, vaddr, true): the tables afterwards.
walk_level1_alloc(V, vpage) ==
    IF V.pm.fault # "none" THEN V
    ELSE walk_alloc(V, walk_level1(V, vpage), VPN(vpage, 1))

walk_can_alloc(V, vpage) ==
    IF vpage >= MAX_VPAGE THEN vm_fault(V, "__walk: vaddr < MAX_VADDR")
    ELSE walk_level1_alloc(walk_alloc(V, V.root, VPN(vpage, 2)), vpage)

\* __walk(table, vaddr, false) returns null.
walk_null(V, vpage) ==
    \/ "V" \notin Pte(V, V.root, VPN(vpage, 2)).flags
    \/ "V" \notin Pte(V, walk_level1(V, vpage), VPN(vpage, 1)).flags

\* map_page for the pages first..last, which lie in one level-0 table,
\* after __walk of the first: *pte = PADDR_TO_PTE(paddr) | flags | PTE_V.
map_leaves(W, first, last, ppage, perm) ==
    IF W.pm.fault # "none" THEN W
    ELSE table_store(W, walk_level0(W, first),
                     [i \in {VPN(u, 0) : u \in first..last} |->
                         [ppn |-> ppage + (i - VPN(first, 0)),
                          flags |-> perm \cup {"V"}]])

\* The last page of first..vend in the level-0 table of first.
table_last(first, vend) ==
    IF (first \div PTE_COUNT) * PTE_COUNT + PTE_COUNT - 1 < vend
    THEN (first \div PTE_COUNT) * PTE_COUNT + PTE_COUNT - 1 ELSE vend

\* The while loop of map: map_page for the pages first..vend in turn.
RECURSIVE map_pages(_, _, _, _, _)
map_pages(V, first, vend, ppage, perm) ==
    IF V.pm.fault # "none" \/ first > vend THEN V
    ELSE map_pages(map_leaves(walk_can_alloc(V, first), first,
                              table_last(first, vend), ppage, perm),
                   table_last(first, vend) + 1, vend,
                   ppage + (table_last(first, vend) - first) + 1, perm)

\* The page of vaddr + n - 1, vaddr page-aligned.
last_page(vpage, n) == vpage + ((n - 1) \div PAGE_SIZE)

\* map(table, vaddr, paddr, n, perm), vaddr and paddr page-aligned.
map(V, vpage, ppage, n, perm) ==
    map_pages(V, vpage, last_page(vpage, n), ppage, perm)

\* free_page((void*)0), as unmap_page calls it: free_pages((void*)0, 0)
\* takes p = ADDR_TO_PAGE_NUM(0) = (0 - base_ptr) >> PAGE_SHIFT, a page
\* number of about 2^52, and bitmap_free(p, 1) first accesses
\* mm_bitmap.map[p / 64], about 2^49 bytes past the bitmap, where there is
\* no memory and no Sv39 address: the access traps and the kernel panics.
free_page_zero(V) ==
    vm_fault(V, "bitmap_free: mm_bitmap.map[ADDR_TO_PAGE_NUM(0) / 64]")

\* unmap_page: pte = __walk(table, vaddr, false); assert(pte != null);
\* *pte = 0; free_page((void*)PTE_TO_PADDR(*pte)).
unmap_page(V, vpage) ==
    IF vpage >= MAX_VPAGE THEN vm_fault(V, "__walk: vaddr < MAX_VADDR")
    ELSE IF walk_null(V, vpage) THEN vm_fault(V, "unmap_page: pte != null")
    ELSE free_page_zero(table_clear(V, walk_level0(V, vpage), VPN(vpage, 0)))

\* The while loop of unmap.
RECURSIVE unmap_pages(_, _, _)
unmap_pages(V, first, vend) ==
    IF V.pm.fault # "none" \/ first > vend THEN V
    ELSE unmap_pages(unmap_page(V, first), first + 1, vend)

unmap(V, vpage, n) == unmap_pages(V, vpage, last_page(vpage, n))

\* walk(table, vaddr): PTE_TO_PADDR(*pte) | (vaddr & OFFSET_MASK), or 0.
walk(V, vpage, off) ==
    IF walk_null(V, vpage) THEN [page |-> 0, off |-> 0]
    ELSE [page |-> Pte(V, walk_level0(V, vpage), VPN(vpage, 0)).ppn,
          off |-> off]

\* The sections vmm_init maps, each onto itself: text, rodata, data, bss,
\* the kernel stack and the heap.
KernelSections ==
    <<[page |-> KernelPage, n |-> SectionPages * PAGE_SIZE, perm |-> {"R", "X"}],
      [page |-> KernelPage + SectionPages, n |-> SectionPages * PAGE_SIZE,
       perm |-> {"R"}],
      [page |-> KernelPage + 2 * SectionPages, n |-> SectionPages * PAGE_SIZE,
       perm |-> {"R", "W"}],
      [page |-> KernelPage + 3 * SectionPages, n |-> SectionPages * PAGE_SIZE,
       perm |-> {"R", "W"}],
      [page |-> KernelPage + 4 * SectionPages, n |-> SectionPages * PAGE_SIZE,
       perm |-> {"R", "W"}],
      [page |-> HeapStartPage, n |-> HeapPages * PAGE_SIZE, perm |-> {"R", "W"}]>>

\* The calls of map in vmm_init from the k-th on.
RECURSIVE vmm_init_maps(_, _)
vmm_init_maps(V, k) ==
    IF k > Len(KernelSections) THEN V
    ELSE vmm_init_maps(map(V, KernelSections[k].page, KernelSections[k].page,
                           KernelSections[k].n, KernelSections[k].perm), k + 1)

\* vmm_init: pagetable = alloc_page(), then the maps.
vmm_init_root(P, a) ==
    IF a.P.fault # "none" \/ a.ptr = NoPage
    THEN [pm |-> Fault(a.P, "__walk: table"), pt |-> <<>>, root |-> NoPage]
    ELSE vmm_init_maps([pm |-> a.P, pt |-> <<>>, root |-> a.ptr], 1)

vmm_init(P) == vmm_init_root(P, alloc_pages(P, 0))

\* Calls of map the clients make in a run.
MaxMaps == 2

\* UART0 >> OFFSET_SHIFT
UartPage == 65536

\* The calls of map the clients make: UART0 as uart_vm_init maps it, the
\* same page mapped elsewhere over two pages, two pages that end one
\* level-0 table and begin the next, the first and the last page of the
\* address space, a page that vmm_init has mapped.
Maps ==
    {[va |-> UartPage, pa |-> UartPage, n |-> PAGE_SIZE, perm |-> {"R", "W"}],
     [va |-> UartPage, pa |-> KernelPage, n |-> 2 * PAGE_SIZE, perm |-> {"R"}],
     [va |-> PTE_COUNT - 1, pa |-> UartPage, n |-> PAGE_SIZE + 1,
      perm |-> {"R", "W"}],
     [va |-> 0, pa |-> KernelPage, n |-> 1, perm |-> {"R", "X"}],
     [va |-> MAX_VPAGE - 1, pa |-> KernelPage, n |-> PAGE_SIZE,
      perm |-> {"R", "W"}],
     [va |-> KernelPage, pa |-> UartPage, n |-> 1, perm |-> {"R"}]}

\* The pages they look up.
VPages == UNION {m.va..last_page(m.va, m.n) : m \in Maps}

VmRunning == mm_pc = "vmm" /\ pm.fault = "none"

TheVm == [pm |-> pm, pt |-> vm.pt, root |-> vm.root]

vm_returns(V) ==
    /\ pm' = V.pm
    /\ vm' = [root |-> V.root, pt |-> V.pt]

\* main() calls vmm_init().
main_vmm_init ==
    /\ mm_pc = "pmm"
    /\ pm.fault = "none"
    /\ mm_pc' = "vmm"
    /\ vm_returns(vmm_init(pm))
    /\ mm_ev' = [op |-> "vmm_init"]
    /\ UNCHANGED <<held, scenario, mm_calls, hp, live>>
    /\ UNCHANGED call
    /\ UNCHANGED sched_vars
    /\ UNCHANGED trap_vars

\* A client calls kmap(vaddr, paddr, n, perm).
map_call ==
    /\ VmRunning
    /\ mm_calls < MaxMaps
    /\ mm_calls' = mm_calls + 1
    /\ \E m \in Maps :
         /\ vm_returns(map(TheVm, m.va, m.pa, m.n, m.perm))
         /\ mm_ev' = [op |-> "map", m |-> m]
    /\ UNCHANGED <<mm_pc, held, scenario, hp, live>>
    /\ UNCHANGED call
    /\ UNCHANGED sched_vars
    /\ UNCHANGED trap_vars

\* A client calls kunmap(vaddr, n).
unmap_call ==
    /\ VmRunning
    /\ \E m \in Maps :
         /\ vm_returns(unmap(TheVm, m.va, m.n))
         /\ mm_ev' = [op |-> "unmap", m |-> m]
    /\ UNCHANGED <<mm_pc, held, scenario, mm_calls, hp, live>>
    /\ UNCHANGED call
    /\ UNCHANGED sched_vars
    /\ UNCHANGED trap_vars

\* A client calls kwalk(vaddr).
walk_call ==
    /\ VmRunning
    /\ \E v \in VPages, off \in {0, PAGE_SIZE - 1} :
         /\ mm_ev' = [op |-> "walk", va |-> v, pa |-> walk(TheVm, v, off)]
         /\ mm_ev' # mm_ev
    /\ UNCHANGED <<mm_pc, pm, vm, held, scenario, mm_calls, hp, live>>
    /\ UNCHANGED call
    /\ UNCHANGED sched_vars
    /\ UNCHANGED trap_vars

\* A client calls map, unmap and the same map again.
map_unmap_map ==
    /\ VmRunning
    /\ mm_calls < MaxMaps
    /\ mm_calls' = mm_calls + 1
    /\ \E m \in Maps :
         /\ vm_returns(map(unmap(map(TheVm, m.va, m.pa, m.n, m.perm),
                                 m.va, m.n),
                           m.va, m.pa, m.n, m.perm))
         /\ mm_ev' = [op |-> "map;unmap;map", m |-> m]
    /\ UNCHANGED <<mm_pc, held, scenario, hp, live>>
    /\ UNCHANGED call
    /\ UNCHANGED sched_vars
    /\ UNCHANGED trap_vars

----------------------------------------------------------------------------
\* The state after thread_init(): the ready queue is empty, tid_lock is
\* free, main() runs on the boot stack with interrupts off.
Init ==
    /\ status = [t \in Threads |-> "NEW"]
    /\ tid = [t \in Threads |-> 0]
    /\ time = [t \in Threads |-> 0]
    /\ exit_code = [t \in Threads |-> 0]
    /\ allocated = {}
    /\ thread_count = 0
    /\ next_tid = 1
    /\ ready_threads = <<>>
    /\ idle_thread = null
    /\ sem = [s \in Sems |-> [value |-> IF s = "tid_lock" THEN 1 ELSE 0,
                               waiters |-> <<>>]]
    /\ holder = null
    /\ intr = "OFF"
    /\ cur = BootThread
    /\ prev_reg = null
    /\ stk = [t \in Threads |-> IF t = BootThread
                                 THEN <<F("main:thread_hart_init")>> ELSE <<>>]
    /\ tf = [t \in Threads |-> NoTf]
    /\ panic = "none"
    /\ req = [t \in Threads |-> IF t = BootThread THEN "main" ELSE "-"]
    /\ first_blocked = [s \in Sems |-> <<>>]
    /\ ev = [op |-> "thread_init", t |-> BootThread, s |-> "-", w |-> null]
    /\ mm_pc = "boot"
    /\ pm = [sh |-> "-", ma |-> "-", r |-> 0, map |-> {}, zeroed |-> {}, mem |-> <<>>,
             list |-> [i \in 0..(BUCKET_COUNT - 1) |-> <<>>], fault |-> "none"]
    /\ held = {}
    /\ scenario = [on |-> TRUE, p |-> <<>>, freed |-> 0]
    /\ mm_calls = 0
    /\ mm_ev = [op |-> "boot", order |-> 0, ptr |-> NoPage]
    /\ hp = [i \in 0..(NUM_BUCKET - 1) |-> <<>>]
    /\ live = {}
    /\ call = [c \in Callers |-> NoCall]
    /\ vm = [root |-> NoPage, pt |-> <<>>]
    /\ stvec = "-"
    /\ sip = {}
    /\ ticks = 0

Next ==
    \/ thread_hart_init
    \/ trap_init
    \/ trap_hart_init
    \/ scheduler_start
    \/ scheduler_start_intr_enable
    \/ scheduler_start_semaphore_down
    \/ thread_yield
    \/ thread_yield_ret
    \/ thread_block
    \/ thread_block_ret
    \/ thread_exit
    \/ schedule
    \/ schedule_tail
    \/ semaphore_try_down
    \/ semaphore_down
    \/ semaphore_down_loop
    \/ semaphore_up
    \/ kthread_create
    \/ proc_register_thread
    \/ allocate_tid
    \/ allocate_tid_locked
    \/ allocate_tid_release
    \/ lock_try_acquire
    \/ lock_try_acquire_holder
    \/ lock_release
    \/ kthread_create_frame
    \/ kthread_create_unblock
    \/ s_ret_trap
    \/ kthread
    \/ function_return
    \/ idle
    \/ idle_up
    \/ idle_loop
    \/ timer_handle_interrupt
    \/ s_trap_ret

Spec == Init /\ [][Next]_vars

\* The memory managers under their clients.
NextMm ==
    \/ main_pmm_init
    \/ alloc_pages_call
    \/ fill_pages
    \/ free_pages_call
    \/ free_pages_alloc_pages

SpecMm == Init /\ [][NextMm]_vars

\* The bitmap alone: bitmap_alloc and bitmap_free of one range.
NextBitmap ==
    \/ main_pmm_init
    \/ bitmap_alloc_call
    \/ bitmap_free_call

SpecBitmap == Init /\ [][NextBitmap]_vars

\* Threads that call alloc_page() and are preempted in it.
NextPreempt ==
    \/ main_pmm_init
    \/ \E c \in Callers : alloc_pages_head(c)
    \/ \E c \in Callers : alloc_pages_delete(c)
    \/ \E c \in Callers : alloc_pages_return(c)
    \/ \E c \in Callers : free_pages_own(c)

SpecPreempt == Init /\ [][NextPreempt]_vars

\* The kernel heap and its clients.
NextHeap ==
    \/ main_pmm_init
    \/ main_malloc_init
    \/ malloc_call
    \/ fill_block
    \/ free_call
    \/ free_malloc
    \/ alloc_pages_until_null

SpecHeap == Init /\ [][NextHeap]_vars

\* The page tables and their clients.
NextVm ==
    \/ main_pmm_init
    \/ main_vmm_init
    \/ map_call
    \/ unmap_call
    \/ walk_call
    \/ map_unmap_map

SpecVm == Init /\ [][NextVm]_vars

\* The boot of hart 0 up to scheduler_start and the traps taken on the way.
NextTrap ==
    \/ thread_hart_init
    \/ trap_init
    \/ trap_hart_init
    \/ m_trap_vec
    \/ s_intr_handler
    \/ s_exc_handler
    \/ timer_handle_interrupt
    \/ schedule

SpecTrap == Init /\ [][NextTrap]_vars

----------------------------------------------------------------------------
\* Properties

\* thread_hart_init() has returned.
after_thread_hart_init == ~(cur = BootThread /\ Top.loc = "main:thread_hart_init")

RunningThreads == {t \in Threads : status[t] = "RUNNING"}

\* The number of places of the list at which t stands.
Count(list, t) == Cardinality({i \in DOMAIN list : list[i] = t})

OnList(list, t) == \E i \in DOMAIN list : list[i] = t

Last(list) == list[Len(list)]

\* The top frame of t's stack; a page without a stack has none.
TopOf(t) == IF stk[t] = <<>> THEN F("-") ELSE Head(stk[t])

\* The number of places on the semaphores' waiter lists at which t stands.
WaitCount(t) ==
    Count(sem["tid_lock"].waiters, t) + Count(sem["idle_started"].waiters, t)
    + Count(sem["s"].waiters, t)

ListCount(t) == Count(ready_threads, t) + WaitCount(t)

\* C1 as stated: in every state after thread_hart_init exactly one thread
\* has status RUNNING, and it is the thread whose page holds the stack
\* pointer.
C1_ExactlyOneRunning == after_thread_hart_init => RunningThreads = {cur}

\* C1, amended: in every state after thread_hart_init in which interrupts
\* are enabled exactly one thread has status RUNNING, and it is the thread
\* whose page holds the stack pointer; while interrupts are disabled no
\* other thread than that one has status RUNNING.
C1_ExactlyOneRunningIntrOn ==
    after_thread_hart_init =>
        /\ RunningThreads \subseteq {cur}
        /\ intr = "ON" => RunningThreads = {cur}

\* A created thread runs with interrupts enabled after a context switch,
\* while the boot thread waits on the ready queue.
C1_Witness ==
    /\ intr = "ON" /\ cur # BootThread /\ status[cur] = "RUNNING"
    /\ status[BootThread] = "READY" /\ Top.loc = "run"

\* kthread_create has set t BLOCKED and has not yet called
\* thread_unblock(t).
Creating(t) ==
    \E c \in Threads : \E i \in DOMAIN stk[c] :
        stk[c][i].loc = "kthread_create:unblock" /\ stk[c][i].t = t

\* A DEAD thread waits for the thread that runs next to free it.
AwaitingReap(t) ==
    /\ ListCount(t) = 0
    /\ prev_reg = t /\ Top.loc = "schedule_tail"

\* C2 as stated: every thread other than the running one is in the one
\* place that matches its status: a READY thread once on the ready queue, a
\* BLOCKED thread once on the waiter list of one semaphore, a DEAD thread
\* waiting to be freed; no thread is on two lists at once.
C2_OnePlace ==
    \A t \in Live :
        /\ ListCount(t) <= 1
        /\ t # cur =>
            /\ status[t] = "READY" => Count(ready_threads, t) = 1
            /\ status[t] = "BLOCKED" => WaitCount(t) = 1
            /\ status[t] = "DEAD" => AwaitingReap(t)

\* C2, amended: as C2, except that a BLOCKED thread is on no list when it
\* is the idle thread or a thread that kthread_create has not yet
\* unblocked.
C2_OnePlaceButIdle ==
    \A t \in Live :
        /\ ListCount(t) <= 1
        /\ t # cur =>
            /\ status[t] = "READY" => Count(ready_threads, t) = 1
            /\ status[t] = "BLOCKED" =>
                 IF t = idle_thread \/ Creating(t) THEN ListCount(t) = 0
                 ELSE WaitCount(t) = 1
            /\ status[t] = "DEAD" => AwaitingReap(t)

\* One thread waits on the ready queue, another on the semaphore's waiter
\* list, and the idle thread is blocked.
C2_Witness ==
    /\ idle_thread # null /\ idle_thread # cur
    /\ status[idle_thread] = "BLOCKED"
    /\ \E a, b \in Live \ {cur, idle_thread} :
        /\ status[a] = "READY" /\ OnList(ready_threads, a)
        /\ status[b] = "BLOCKED" /\ OnList(sem["s"].waiters, b)

\* The transitions of the thread lifecycle.
Lifecycle ==
    {<<"NEW", "READY">>, <<"READY", "RUNNING">>, <<"RUNNING", "READY">>,
     <<"RUNNING", "BLOCKED">>, <<"BLOCKED", "READY">>, <<"RUNNING", "DEAD">>}

\* The step takes a page for a new thread (alloc_thread).
Allocates(t) == t \notin Live /\ t \in Live'

LifecycleBy(t, from, to) ==
    \/ /\ from = "NEW" /\ to = "RUNNING"
       /\ t = BootThread /\ ev'.op = "thread_hart_init"
    \/ /\ from = "NEW" /\ to = "BLOCKED"
       /\ ev'.op = "kthread_create_frame"
    \/ /\ from = "BLOCKED" /\ to = "READY"
       /\ ev'.op \in {"semaphore_up", "kthread_create"} /\ ev'.w = t
    \/ /\ from = "READY" /\ to = "RUNNING"
       /\ ev'.op \in {"thread_run", "free_thread"} /\ t = cur
    \/ /\ from = "BLOCKED" /\ to = "RUNNING"
       /\ ev'.op \in {"thread_run", "free_thread"} /\ t = cur
       /\ t = idle_thread
    \/ /\ from = "RUNNING" /\ to = "READY"
       /\ ev'.op \in {"thread_yield", "preempt"} /\ t = cur
    \/ /\ from = "RUNNING" /\ to = "BLOCKED"
       /\ ev'.op \in {"thread_block", "idle_loop"} /\ t = cur
    \/ /\ from = "RUNNING" /\ to = "DEAD"
       /\ ev'.op = "thread_exit" /\ t = cur

C4_ScheduleAssertions ==
    Top.loc = "schedule" => (intr = "OFF" /\ status[cur] # "RUNNING")

Scheduled(t) == status[t] # "RUNNING" /\ status'[t] = "RUNNING"

\* The page of t is returned to the page allocator in this step.
Frees(t) == t \in allocated /\ t \notin allocated'

\* The quantum: set to TIME_SLICE when a thread becomes RUNNING, decremented
\* by one, for the current thread alone, by each timer tick, changed by
\* nothing else; the tick that brings it to 0, and no other, calls
\* thread_yield.
Quantum ==
    /\ \A t \in Threads : Scheduled(t) => time'[t] = TIME_SLICE
    /\ IF ev'.op \in {"tick", "preempt"}
       THEN /\ intr = "ON" /\ status[cur] = "RUNNING"
            /\ time[cur] >= 1 /\ time'[cur] = time[cur] - 1
            /\ \A t \in Threads \ {cur} : time'[t] = time[t]
            /\ (ev'.op = "preempt") <=> (time[cur] = 1)
            /\ ev'.op = "preempt" => Head(stk'[cur]).loc = "schedule"
       ELSE \A t \in Threads :
                time'[t] # time[t] => Scheduled(t) \/ Allocates(t) \/ Frees(t)

\* A thread that runs with interrupts enabled has between 1 and TIME_SLICE
\* ticks left.
QuantumLeft ==
    (intr = "ON" /\ status[cur] = "RUNNING") =>
        (time[cur] >= 1 /\ time[cur] <= TIME_SLICE)

C7_ExitAndReap ==
    /\ [](\A t \in allocated : status[t] = "DEAD" =>
            /\ intr = "OFF" /\ ListCount(t) = 0
            /\ \/ cur = t /\ Top.loc = "schedule"
               \/ cur # t /\ prev_reg = t /\ Top.loc = "schedule_tail")
    /\ [][\A t \in Threads :
            /\ (t \in allocated /\ status[t] = "DEAD" /\ cur = t) =>
                  (cur' # t /\ status'[t] = "DEAD" /\ t \in allocated')
            /\ (t \in allocated /\ status[t] = "DEAD" /\ cur # t) =>
                  (Frees(t) /\ cur' = cur)
            /\ Frees(t) =>
                  /\ status[t] = "DEAD" /\ cur # t
                  /\ ev'.op = "free_thread" /\ ev'.t = cur /\ ev'.w = t
                  /\ thread_count > 0 /\ thread_count' = thread_count - 1
                  /\ intr = "OFF" /\ intr' = "OFF"
            /\ thread_count' < thread_count => \E u \in Threads : Frees(u)
            /\ (status[t] = "DEAD" /\ status'[t] # "DEAD") => Allocates(t)]_vars

\* The idle thread has just freed the page of a thread that exited.
C7_Witness ==
    /\ ev.op = "free_thread" /\ ev.w \notin allocated
    /\ status[ev.w] = "DEAD" /\ exit_code[ev.w] = 0 /\ cur = idle_thread

\* C8: kthread_create returns the tid of a thread that it has just put, in
\* status READY, at the tail of the ready queue, with its trap frame and
\* context built; a thread that is NEW or has no trap frame yet is on no
\* list and is not current; the first time the thread is scheduled it
\* goes through kthread into its entry function with its argument, with
\* interrupts enabled.
C8_KthreadCreate ==
    /\ [](/\ \A t \in allocated :
                (status[t] = "NEW" \/ tf[t] = NoTf) =>
                    (ListCount(t) = 0 /\ t # cur)
          /\ Top.loc = "s_ret_trap" =>
                tf[cur] = [epc |-> "kthread", a0 |-> req[cur],
                           a1 |-> ArgOf(req[cur]), spie |-> TRUE, spp |-> TRUE]
          /\ Top.loc = "kthread" =>
                (Top.fn = req[cur] /\ Top.arg = ArgOf(req[cur])))
    /\ [][/\ ev'.op = "kthread_create" =>
                LET t == ev'.w IN
                /\ t \in allocated /\ t # cur /\ tid[t] = Top.n
                /\ status[t] = "BLOCKED" /\ status'[t] = "READY"
                /\ ready_threads' = Append(ready_threads, t)
                /\ tf[t].epc = "kthread" /\ tf[t].a0 = req[t]
                /\ tf[t].a1 = ArgOf(req[t])
                /\ Top.fn = req[t]
                /\ Head(stk[t]).loc = "schedule_tail"
                /\ Head(Tail(stk[t])).loc = "s_ret_trap"
          /\ \A t \in allocated :
                (TopOf(t).loc = "s_ret_trap" /\ stk'[t] # stk[t]) =>
                    (t = cur /\ Head(stk'[t]).loc = "kthread")
          /\ ev'.op = "kthread" =>
                /\ intr' = "ON"
                /\ Head(stk'[cur]).fn = req[cur]
                /\ Head(stk'[cur]).arg = ArgOf(req[cur])
                /\ Head(stk'[cur]).loc = IF req[cur] = "idle" THEN "idle"
                                         ELSE "run"]_vars

\* A thread created by a client starts in its entry function, with
\* interrupts enabled.
C8_Witness ==
    /\ ev.op = "kthread" /\ req[cur] = "th_f1" /\ intr = "ON"
    /\ Top.loc = "run" /\ Top.fn = "th_f1" /\ Top.arg = "null"

Place(list, t) ==
    IF OnList(list, t) THEN CHOOSE i \in DOMAIN list : list[i] = t ELSE 0

\* C10 as stated: the thread that semaphore_up releases is, among the
\* threads blocked on the semaphore, the one that first blocked the
\* earliest in its call of semaphore_down.
C10_FirstBlockedFirst ==
    [][\A s \in Sems :
        (ev'.op = "semaphore_up" /\ ev'.s = s /\ ev'.w # null) =>
            \A u \in Threads :
                OnList(sem[s].waiters, u) =>
                    /\ OnList(first_blocked[s], u)
                    /\ Place(first_blocked[s], ev'.w)
                         <= Place(first_blocked[s], u)]_vars

\* C10, amended: the thread that semaphore_up releases is the one that has been
\* blocked on the semaphore for the longest time without a break: threads
\* are woken in the order in which they last blocked.  A waiter list
\* changes only by the thread that blocks being appended at its tail and
\* by semaphore_up taking its head, which is the thread it makes READY.
C10_WakeFifo ==
    /\ [](\A s \in Sems : \A i \in DOMAIN sem[s].waiters :
            /\ sem[s].waiters[i] \in Live
            /\ status[sem[s].waiters[i]] = "BLOCKED"
               \/ (sem[s].waiters[i] = cur /\ i = Len(sem[s].waiters)
                   /\ Top.loc \in {"thread_block", "schedule"}))
    /\ [][\A s \in Sems :
            /\ \/ sem'[s].waiters = sem[s].waiters
               \/ /\ sem'[s].waiters = Append(sem[s].waiters, cur)
                  /\ ev'.op = "semaphore_down:wait" /\ ev'.s = s
               \/ /\ sem[s].waiters # <<>>
                  /\ sem'[s].waiters = Tail(sem[s].waiters)
                  /\ ev'.op = "semaphore_up" /\ ev'.s = s
            /\ (ev'.op = "semaphore_up" /\ ev'.s = s) =>
                  IF sem[s].waiters = <<>> THEN ev'.w = null
                  ELSE /\ ev'.w = Head(sem[s].waiters)
                       /\ sem'[s].waiters = Tail(sem[s].waiters)
                       /\ status[ev'.w] = "BLOCKED"
                       /\ status'[ev'.w] = "READY"
            /\ (ev'.op = "semaphore_down:wait" /\ ev'.s = s) =>
                  sem'[s].waiters = Append(sem[s].waiters, cur)]_vars

\* semaphore_up has released one of two waiters, and the other still
\* waits.
C10_Witness ==
    /\ ev.op = "semaphore_up" /\ ev.s = "s" /\ ev.w # null
    /\ status[ev.w] = "READY" /\ Len(sem["s"].waiters) >= 1

\* The frames of thread t.
Frames(t) == {stk[t][i] : i \in DOMAIN stk[t]}

\* C11: semaphore_up never blocks and never switches threads.  The step
\* of semaphore_up leaves the caller the current thread, RUNNING, with its
\* interrupt state, on no frame of the scheduler; if the waiter list was
\* not empty, its head is READY and at the tail of the ready queue, which
\* is otherwise as it was: no thread was taken from the ready queue between
\* the removal of the waiter and its insertion.
C11_UpNeverSwitches ==
    [][ev'.op = "semaphore_up" =>
        /\ cur' = cur /\ ev'.t = cur
        /\ status'[cur] = "RUNNING"
        /\ intr' = intr
        /\ TopOf(cur)'.loc \notin {"thread_block", "schedule", "schedule_tail"}
        /\ (ev'.w = null) = (sem[ev'.s].waiters = <<>>)
        /\ ev'.w = null => (ready_threads' = ready_threads /\ status' = status)
        /\ ev'.w # null =>
            /\ ev'.w = Head(sem[ev'.s].waiters)
            /\ sem'[ev'.s].waiters = Tail(sem[ev'.s].waiters)
            /\ status' = [status EXCEPT ![ev'.w] = "READY"]
            /\ ready_threads' = Append(ready_threads, ev'.w)]_vars

\* A semaphore_up has released a waiter, which is READY on the ready queue
\* behind another thread, and the caller is still the running thread.
C11_Witness ==
    /\ ev.op = "semaphore_up" /\ ev.w # null /\ ev.t = cur
    /\ status[cur] = "RUNNING"
    /\ Len(ready_threads) >= 2 /\ Last(ready_threads) = ev.w

\* Thread t has tid_lock: it has come out of the semaphore_down of
\* lock_acquire or out of a successful semaphore_try_down of
\* lock_try_acquire, and has not called lock_release yet.
LockTaken(t) ==
    \E i \in DOMAIN stk[t] :
        /\ stk[t][i].loc \in {"allocate_tid:locked", "allocate_tid:release",
                              "lock_try_acquire:holder", "locked"}
        /\ \A j \in 1..(i - 1) : stk[t][j].loc # "semaphore_down:loop"

\* Thread t has returned from lock_acquire or from a successful
\* lock_try_acquire and has not called lock_release yet.
LockHeld(t) ==
    \E i \in DOMAIN stk[t] : stk[t][i].loc \in {"allocate_tid:release", "locked"}

\* C12: a lock gives mutual exclusion under timer preemption.  At most one
\* thread has the lock, the holder field names the thread that has returned
\* with it, the value of the lock's semaphore is 0 or 1 and is 0 while a
\* thread has the lock; and no thread returns from lock_acquire or succeeds
\* in lock_try_acquire while another thread holds the lock.
C12_LockMutualExclusion ==
    /\ [](/\ Cardinality({t \in Threads : LockTaken(t)}) <= 1
          /\ sem["tid_lock"].value \in {0, 1}
          /\ \A t \in Threads : LockTaken(t) => sem["tid_lock"].value = 0
          /\ \A t \in Threads : LockHeld(t) => holder = t)
    /\ [][ev'.op \in {"lock_acquire", "lock_try_acquire"} =>
            /\ ev'.t = cur /\ LockHeld(cur)'
            /\ \A t \in Threads \ {cur} : ~LockTaken(t) /\ ~LockTaken(t)']_vars

\* A thread that holds tid_lock has been preempted, another thread waits
\* in lock_acquire, and a third has just failed in lock_try_acquire.
C12_Witness ==
    /\ \E t \in Threads \ {cur} : LockHeld(t)
    /\ sem["tid_lock"].waiters # <<>>
    /\ ev.op = "lock_try_acquire:fail"

\* The sections `old = intr_disable(); ...; intr_set_state(old)` that
\* thread t is in, the innermost first: the frames that hold a saved
\* interrupt state.
Sections(t) == SelectSeq(stk[t], LAMBDA f : f.st # "-")

\* C13: intr_disable() returns the interrupt state that held before the
\* call and leaves the state OFF, so that a thread that enters a section
\* saves the state that held (a thread_yield called by the timer handler
\* saves OFF, the state the trap left); intr_set_state(old) at the end of
\* a section leaves the state the section saved; and while the current
\* thread is in a section interrupts are OFF: every section but the
\* outermost has saved OFF, so that only the outermost one turns them on.
C13_IntrSections ==
    /\ [](Running =>
            /\ Sections(cur) # <<>> => intr = "OFF"
            /\ \A t \in Threads : \A i \in 1..(Len(Sections(t)) - 1) :
                    Sections(t)[i].st = "OFF")
    /\ [][(cur' = cur /\ Running') =>
            /\ Len(Sections(cur)') = Len(Sections(cur)) + 1 =>
                /\ intr' = "OFF"
                /\ Head(Sections(cur)').st =
                       IF ev'.op = "preempt" THEN "OFF" ELSE intr
            /\ Len(Sections(cur)') = Len(Sections(cur)) - 1 =>
                intr' = Head(Sections(cur)).st]_vars

\* thread_block has restored the state it saved, OFF, inside a
\* semaphore_down that was called with interrupts on.
C13_Witness ==
    /\ ev.op = "thread_block_ret" /\ intr = "OFF"
    /\ Len(Sections(cur)) = 1 /\ Sections(cur)[1].st = "ON"
    /\ Top.loc = "semaphore_down:loop"


----------------------------------------------------------------------------
\* The page allocator (SpecMm)

\* pmm_init() has returned and no call has stopped the kernel.
MmQuiescent == mm_pc # "boot" /\ pm.fault = "none"

\* The first frames of the blocks on bucket i.
BlocksOn(i) == {pm.list[i][k] : k \in 1..Len(pm.list[i])}

\* The frames of the block of order i at x.
FramesOf(x, i) == x..(x + 2 ^ i - 1)

\* Frame p is the first frame of, or interior to, a block on a bucket list.
InFreeBlock(p) ==
    \E i \in 0..(BUCKET_COUNT - 1) : \E x \in BlocksOn(i) : p \in FramesOf(x, i)

\* C14: after pmm_init and after every alloc_pages and matching free_pages,
\* the bitmap bit of a managed frame is 1 exactly when the frame lies in no
\* block on a bucket list, and no frame lies in two blocks on the lists.
C14_BuddyExclusivity ==
    MmQuiescent =>
        /\ \A p \in Pages : (p \in pm.map) <=> ~InFreeBlock(p)
        /\ \A i, j \in 0..(BUCKET_COUNT - 1) :
             \A x \in BlocksOn(i), y \in BlocksOn(j) :
                 <<x, i>> # <<y, j>> => FramesOf(x, i) \cap FramesOf(y, j) = {}


\* The buddy of the block of order i at x.
Buddy(x, i) == IF (x \div 2 ^ i) % 2 = 0 THEN x + 2 ^ i ELSE x - 2 ^ i

\* C15: right after pmm_init and after every alloc_pages and free_pages, for
\* every order i in 0..8 the buddy of a block on bucket i is not on bucket i:
\* two free buddies of equal order never coexist.
C15_NoFreeBuddies ==
    MmQuiescent =>
        \A i \in 0..(BUCKET_COUNT - 1) :
            \A x \in BlocksOn(i) : Buddy(x, i) \notin BlocksOn(i)


\* C16: alloc_pages(order) returns null exactly when every bucket j >= order
\* is empty, and then changes neither the bitmap nor a bucket list; when some
\* bucket j >= order is not empty it returns a block taken from the smallest
\* such bucket.
C16_AllocPagesNull ==
    [][mm_ev'.op = "alloc_pages" =>
         LET order == mm_ev'.order
             ptr == mm_ev'.ptr
         IN /\ (ptr = NoPage) <=> (NonEmpty(pm, order) = {})
            /\ NonEmpty(pm, order) = {} =>
                   pm'.map = pm.map /\ pm'.list = pm.list
            /\ NonEmpty(pm, order) # {} =>
                   LET i == Low(NonEmpty(pm, order))
                   IN /\ ptr = list_head(pm.list[i])
                      /\ pm'.list[i] = list_delete_head(pm.list[i])]_vars


\* C17: for every k for which alloc_pages(k) succeeds,
\* free_pages(alloc_pages(k), k) restores the allocator: every bucket holds
\* the blocks it held before and the bitmap is unchanged.
C17_FreeAllocRestores ==
    [][mm_ev'.op = "free_pages(alloc_pages)" =>
         /\ pm'.fault = "none"
         /\ \A i \in 0..(BUCKET_COUNT - 1) :
              {pm'.list[i][k] : k \in 1..Len(pm'.list[i])} = BlocksOn(i)
         /\ pm'.map = pm.map]_vars


\* C18: from the allocator as pmm_init leaves it, three order-0 frames p1,
\* p2, p3 are allocated and freed in the order p2, p3, p1.  After p3 is
\* freed, p2 and p3 are one order-1 block; after p1 is freed, bucket 0 holds
\* exactly p1 and bucket 1 exactly the block of p2 and p3.
C18_ThreePages ==
    (scenario.on /\ Len(scenario.p) = 3) =>
        LET p1 == scenario.p[1]
            p2 == scenario.p[2]
            p3 == scenario.p[3]
            merged == IF p2 < p3 THEN p2 ELSE p3
        IN /\ pm.fault = "none"
           /\ scenario.freed >= 2 =>
                  /\ Buddy(p2, 0) = p3
                  /\ merged \in BlocksOn(1)
                  /\ p2 \notin BlocksOn(0) /\ p3 \notin BlocksOn(0)
           /\ scenario.freed = 3 =>
                  /\ BlocksOn(0) = {p1}
                  /\ BlocksOn(1) = {merged}


----------------------------------------------------------------------------
\* The kernel heap (SpecHeap)

\* The places on the free list of bucket i that hold blocks of the
\* superblock sb.
SlotsOn(sb, i) == {k \in 1..Len(hp[i]) : hp[i][k].sb = sb}

\* The blocks of the superblock sb that clients hold.
LiveIn(sb) == {b \in live : b.sb = sb}

\* C19: for every pointer malloc returned that is not yet freed, the
\* superblock of its page has the magic and the type UNIBLOCK or
\* MULTIBLOCK; and the free_blocks of a MULTIBLOCK superblock with a live
\* pointer is the number of its blocks on the free list of its bucket,
\* which is blocks_per_sblock less the number of live pointers into it.
C19_HeapLiveness ==
    pm.fault = "none" =>
        \A b \in live :
            LET sb == Mem(pm, b.sb)
            IN /\ sb.w0 = SBLOCK_MAGIC
               /\ sb.w1 \in {SBLOCK_UNIBLOCK, SBLOCK_MULTIBLOCK}
               /\ sb.w1 = SBLOCK_MULTIBLOCK =>
                    /\ is_bucket(sb.w2)
                    /\ sb.w3 = Cardinality(SlotsOn(b.sb, bucket_index(sb.w2)))
                    /\ sb.w3 = blocks_in_page(bucket_index(sb.w2))
                                 - Cardinality(LiveIn(b.sb))


\* C20: free(malloc(n)), for a malloc(n) that succeeds, leaves the
\* allocator as it was before the call: the free lists of the heap
\* buckets, the free_blocks of the superblocks with live pointers, the
\* buckets of the page allocator and the bitmap.
C20_FreeMallocRestores ==
    [][mm_ev'.op = "free(malloc)" =>
         /\ pm'.fault = "none"
         /\ hp' = hp
         /\ \A b \in live : Mem(pm', b.sb).w3 = Mem(pm, b.sb).w3
         /\ pm'.list = pm.list
         /\ pm'.map = pm.map]_vars


\* The order of the smallest block of pages that holds the n bytes of a
\* request and the superblock header before them.
UniblockOrder(n) == page_order(n + SBLOCK_SIZE)

\* C21: a malloc(n) too large for any bucket that succeeds leaves a
\* UNIBLOCK whose page_order is the ceiling-log2 of the pages that n bytes
\* and the header need (2 for n = 3 * PAGE_SIZE), and free of it puts a
\* block of that order, 2^page_order pages, back on the page allocator's
\* buckets.
C21_UniblockOrder ==
    [][/\ (mm_ev'.op = "malloc" /\ mm_ev'.ptr # NoPage
           /\ malloc_bucket(mm_ev'.order) = NUM_BUCKET)
          => /\ Mem(pm', mm_ev'.ptr).w1 = SBLOCK_UNIBLOCK
             /\ Mem(pm', mm_ev'.ptr).w2 = UniblockOrder(mm_ev'.order)
       /\ (mm_ev'.op = "free" /\ pm'.fault = "none"
           /\ malloc_bucket(mm_ev'.order) = NUM_BUCKET)
          => /\ pm'.list[UniblockOrder(mm_ev'.order)] # <<>>
             /\ list_head(pm'.list[UniblockOrder(mm_ev'.order)]) = mm_ev'.ptr
      ]_vars


\* C22: malloc(16) twice on the heap as malloc_init leaves it: the first
\* call carves one page into the blocks of 16 bytes of the bucket of order
\* 4 and returns its first block, the second returns the block after it in
\* the same superblock; when both are freed, no block of the page is on a
\* free list and the page is on a bucket of the page allocator.
C22_TwoSmallBlocks ==
    (scenario.on /\ mm_pc = "heap" /\ Len(scenario.p) >= 1) =>
        LET a == scenario.p[1]
        IN /\ a # NoBlock
           /\ pm.fault = "none"
           /\ scenario.freed < 2 =>
                /\ Mem(pm, a.sb).w2 = bucket_addr(0)
                /\ bucket_block_size(0) = 16
                /\ a.slot = 0
           /\ Len(scenario.p) = 2 =>
                /\ scenario.p[2].sb = a.sb
                /\ scenario.p[2].slot = a.slot + 1
           /\ scenario.freed = 2 =>
                /\ \A i \in 0..(NUM_BUCKET - 1) : SlotsOn(a.sb, i) = {}
                /\ \E i \in 0..(BUCKET_COUNT - 1) : a.sb \in BlocksOn(i)


----------------------------------------------------------------------------
\* The page tables (SpecVm)

\* The pages of the call m of map or unmap.
Covered(m) == m.va..last_page(m.va, m.n)

\* The leaf entry of the page is valid.
leaf_valid(V, vpage) ==
    /\ ~walk_null(V, vpage)
    /\ "V" \in Pte(V, walk_level0(V, vpage), VPN(vpage, 0)).flags

\* C23: unmap(table, va, len) of mapped pages returns with the leaf entry
\* of every covered page cleared and has freed nothing: the bitmap and the
\* bucket lists of the page allocator are as before, and the tables of
\* level 1 and level 0 that lead to the covered pages are linked as before.
C23_UnmapFreesNothing ==
    [][(/\ mm_ev'.op = "unmap"
        /\ pm.fault = "none"
        /\ \A v \in Covered(mm_ev'.m) : leaf_valid(TheVm, v)) =>
            /\ pm'.fault = "none"
            /\ pm'.map = pm.map
            /\ pm'.list = pm.list
            /\ vm'.root = vm.root
            /\ \A v \in Covered(mm_ev'.m) :
                 /\ ~walk_null(TheVm', v)
                 /\ walk_level1(TheVm', v) = walk_level1(TheVm, v)
                 /\ walk_level0(TheVm', v) = walk_level0(TheVm, v)
                 /\ Pte(TheVm', walk_level0(TheVm, v), VPN(v, 0)) = NoPte]_vars


\* C24: map(t, va, pa, len, perm), unmap(t, va, len) and the same map
\* again return, and afterwards walk(t, v) is pa + (v - va) for every
\* address v of the mapped range, as after the first map.
C24_MapUnmapMap ==
    [][(mm_ev'.op = "map;unmap;map" /\ pm.fault = "none") =>
            /\ pm'.fault = "none"
            /\ \A v \in Covered(mm_ev'.m) : \A off \in {0, PAGE_SIZE - 1} :
                 /\ walk(TheVm', v, off) =
                        [page |-> mm_ev'.m.pa + (v - mm_ev'.m.va), off |-> off]
                 /\ walk(TheVm', v, off) =
                        walk(map(TheVm, mm_ev'.m.va, mm_ev'.m.pa, mm_ev'.m.n,
                                 mm_ev'.m.perm), v, off)]_vars


\* The tables of level 1: the frames the valid entries of the root point to.
Level1Tables ==
    {pte_frame(vm.pt[vm.root][i]) : i \in DOMAIN Table(TheVm, vm.root)}

\* The valid non-leaf entries <<table, index>>: those of the root and of
\* the tables of level 1.
NonLeafEntries ==
    {e \in UNION {{<<t, i>> : i \in DOMAIN Table(TheVm, t)} :
                    t \in {vm.root} \cup Level1Tables} :
        "V" \in Pte(TheVm, e[1], e[2]).flags}

\* The frame the entry points to.
Child(e) == pte_frame(Pte(TheVm, e[1], e[2]))

\* C25: in the page table that map and unmap calls have built, every valid
\* non-leaf entry points to a frame of the heap that the page allocator has
\* allocated (its bitmap bit is 1 and it lies in no block on a bucket
\* list), no frame is the child of two non-leaf entries, and the root is
\* the child of none.
C25_TableIsTree ==
    mm_pc = "vmm" =>
        /\ \A e \in NonLeafEntries :
             /\ Child(e) \in 0..(Range - 1)
             /\ Child(e) \in pm.map
             /\ ~InFreeBlock(Child(e))
             /\ Child(e) # vm.root
        /\ \A e, f \in NonLeafEntries : Child(e) = Child(f) => e = f

\* Two maps have added tables of level 1 and of level 0 to those of
\* vmm_init, and an unmap has cleared a leaf.
C25_Witness ==
    /\ mm_pc = "vmm"
    /\ mm_ev.op = "unmap"
    /\ Cardinality(Level1Tables) >= 3
    /\ Cardinality(NonLeafEntries) >= 7


----------------------------------------------------------------------------
\* The trap path

\* C28: in the boot sequence of main() the supervisor trap vector is in
\* stvec before sstatus.SIE is set for the first time: interrupts are never
\* on while stvec holds no vector.
C28_VectorBeforeEnable == intr = "ON" => stvec = "s_trap_vec"


\* C26: the supervisor software interrupt (cause 1) that the machine-mode
\* timer vector raises is dispatched by s_trap to the scheduler tick: the
\* kernel does not panic, ticks is one more and the quantum of the current
\* thread one less.
C26_SoftwareInterruptTicks ==
    [][(ev'.op = "s_intr_handler" /\ ev'.w = CAUSE_SSI
        /\ stvec = "s_trap_vec") =>
            /\ panic' = "none"
            /\ ticks' = ticks_inc
            /\ time'[cur] = dec64(time[cur])]_vars

\* The exception codes s_exc_handler has a case for: address misaligned,
\* access fault, page fault, ecall, illegal instruction, breakpoint.
ListedCauses == {0, 1, 2, 3, 4, 5, 6, 7, 8, 9, 11, 12, 13, 15}

----------------------------------------------------------------------------
\* The kernel process and the thread identifiers

\* proc_register_thread(t) has loaded p->thread_count and not yet stored it.
Registering(t) ==
    \E c \in Threads : \E i \in DOMAIN stk[c] :
        stk[c][i].loc = "proc_register_thread" /\ stk[c][i].t = t

\* The kernel threads that __thread_init has initialised and free_thread
\* has not reaped.
KernelThreads ==
    {t \in allocated : ~Registering(t)}
    \cup {t \in {BootThread} : status[t] # "NEW"}

\* C29: kernel_proc.thread_count is the number of kernel threads that have
\* been initialised and not yet reaped, however thread creation, timer
\* preemption and reaping interleave.
C29_ThreadCount == Running => thread_count = Cardinality(KernelThreads)


\* The tids allocate_tid has returned that kthread_create has not yet
\* stored in t->tid, with the thread and the place of the frame holding each.
TidsInHand ==
    UNION {{<<c, i, stk[c][i].n>> :
                i \in {j \in DOMAIN stk[c] :
                          stk[c][j].loc \in {"allocate_tid:release",
                                             "__kthread_create"}}} :
           c \in Threads}

\* C30: thread identifiers are unique and monotonic, however thread
\* creations and timer preemption interleave: no two threads hold the same
\* tid, nor does a tid in hand equal another or that of a thread; every
\* tid handed out is less than next_tid, and each allocate_tid hands out
\* next_tid itself and adds one to it, so that a later tid is greater than
\* every earlier one; the initial kernel thread has tid 1.
C30_TidsUniqueMonotonic ==
    /\ [](Running =>
            /\ \A a, b \in Live :
                 (a # b /\ tid[a] # 0) => tid[a] # tid[b]
            /\ \A h \in TidsInHand :
                 /\ \A t \in Live : tid[t] # h[3]
                 /\ \A g \in TidsInHand : g[3] = h[3] => g = h
                 /\ h[3] < next_tid
            /\ \A t \in Live : tid[t] < next_tid
            /\ status[BootThread] # "NEW" => tid[BootThread] = 1)
    /\ [][next_tid' # next_tid =>
            /\ next_tid' = next_tid + 1
            /\ \/ ev'.op = "thread_hart_init" /\ tid'[BootThread] = next_tid
               \/ /\ ev'.op = "lock_acquire"
                  /\ <<cur, 1, next_tid>> \in TidsInHand']_vars

\* A creator has been preempted with the tid lock held and a tid in hand
\* while two threads it or another creator made hold their tids.
C30_Witness ==
    /\ Running
    /\ \E h \in TidsInHand : h[1] # cur /\ h[3] >= 4
    /\ \E a, b \in allocated : a # b /\ tid[a] >= 2 /\ tid[b] >= 2

----------------------------------------------------------------------------
\* The heap bucket locks (SpecHeap)

\* The bucket locks held after the calls s of lock_acquire and lock_release.
RECURSIVE LocksHeld(_)
LocksHeld(s) ==
    IF s = <<>> THEN {}
    ELSE IF s[Len(s)].op = "lock_acquire"
         THEN LocksHeld(SubSeq(s, 1, Len(s) - 1)) \cup {s[Len(s)].l}
         ELSE LocksHeld(SubSeq(s, 1, Len(s) - 1)) \ {s[Len(s)].l}

\* C31: at every moment of a call of malloc or free the calling thread
\* holds at most one heap bucket lock, and it holds none once the call has
\* returned, on every return path, the one where malloc returns null
\* because the page allocator is exhausted included.
C31_OneBucketLock ==
    mm_ev.op \in {"malloc", "free"} =>
        /\ \A k \in 0..Len(mm_ev.locks) :
               Cardinality(LocksHeld(SubSeq(mm_ev.locks, 1, k))) <= 1
        /\ pm.fault = "none" => LocksHeld(mm_ev.locks) = {}

\* malloc has taken the lock of a bucket, found the page allocator
\* exhausted and returned null.
C31_Witness ==
    /\ mm_ev.op = "malloc" /\ mm_ev.ptr = NoPage /\ pm.fault = "none"
    /\ NonEmpty(pm, 0) = {}
    /\ Len(mm_ev.locks) = 2

----------------------------------------------------------------------------
\* The buddy allocator, one call at a time (SpecMm)

\* C32: free_pages attempts coalescing only while the current order is
\* below the maximum order 8: a free_pages of an order-8 block examines no
\* buddy whatever the memory holds; it clears the bits of the block, stores
\* order 8 in its header and pushes it on bucket 8, so that no block of
\* order 9 is made and no bucket outside 0..8 is pushed onto.
C32_NoCoalesceAtMaxOrder ==
    [][(mm_ev'.op = "free_pages" /\ mm_ev'.order = BUCKET_COUNT - 1) =>
         pm' = free_pages_push(bitmap_free(pm, mm_ev'.ptr, 2 ^ mm_ev'.order),
                               mm_ev'.ptr, mm_ev'.order)]_vars

\* C33: in the coalescing step of free_pages at order k the block examined
\* is the buddy: the block whose frame index is the freed block's with bit
\* k flipped, 2^k pages above or below the freed block; the frame whose
\* allocation bit and stored order are read is that frame and no other.
C33_BuddyExamined ==
    [][(mm_ev'.op = "free_pages" /\ free_pages_loop(mm_ev'.order)) =>
         buddy_page(mm_ev'.ptr, mm_ev'.order)
             = Buddy(mm_ev'.ptr, mm_ev'.order)]_vars

\* The blocks on bucket i after the step that were not on it before.
Pushed(i) ==
    {pm'.list[i][k] : k \in 1..Len(pm'.list[i])} \ BlocksOn(i)

\* C34: every block on buddy bucket list i stores order i in its in-place
\* header: the blocks pmm_init creates, the blocks free_pages pushes, and
\* the right halves that alloc_pages pushes when it splits a larger block.
C34_StoredOrder ==
    /\ [](mm_ev.op = "pmm_init" =>
            \A i \in 0..(BUCKET_COUNT - 1) :
                \A x \in BlocksOn(i) : Mem(pm, x).w0 = i)
    /\ [][pm'.fault = "none" =>
            \A i \in 0..(BUCKET_COUNT - 1) :
                \A x \in Pushed(i) : Mem(pm', x).w0 = i]_vars

----------------------------------------------------------------------------
\* The bitmap (SpecBitmap)

\* The frames p..p + 2^order - 1.
BitRange(e) == e.ptr..(e.ptr + 2 ^ e.order - 1)

\* C35: bitmap_alloc(p, size) sets exactly the bits [p, p + size) and
\* bitmap_free(p, size) clears exactly those bits, every other bit staying
\* as it was and no word outside the bitmap being written, for every start
\* offset 0..63 in a word and every size 2^order, order 0..8; and
\* ALLOCATED(p) reads exactly bit p.
C35_BitmapRange ==
    /\ [](MmRunning => \A p \in Pages : ALLOCATED(pm, p) <=> p \in pm.map)
    /\ [][/\ mm_ev'.op = "bitmap_alloc" =>
                (pm'.map = pm.map \cup BitRange(mm_ev') /\ pm'.mem = pm.mem)
          /\ mm_ev'.op = "bitmap_free" =>
                (pm'.map = pm.map \ BitRange(mm_ev') /\ pm'.mem = pm.mem)]_vars

----------------------------------------------------------------------------
\* The page allocator under preemption (SpecPreempt)

\* C36: under every interleaving of the threads that are in alloc_pages,
\* with a timer preemption between any two steps of it, no frame is handed
\* out to two owners, and the bucket lists stay consistent with what has
\* been handed out: no frame a thread owns lies in a block on a bucket
\* list.
C36_NoFrameTwice ==
    /\ \A c, d \in Callers :
           c # d => call[c].own \cap call[d].own = {}
    /\ \A c \in Callers : \A x \in call[c].own : ~InFreeBlock(x)

----------------------------------------------------------------------------
\* The blocks of the kernel heap (SpecHeap)

\* The bytes of the pointer malloc(n) returned for the block b, counted
\* from base_ptr: the block starts after the superblock header, at its slot.
BlockStart(b) ==
    b.sb * PAGE_SIZE + SBLOCK_SIZE
    + (IF b.slot = Uni THEN 0
       ELSE b.slot * bucket_block_size(malloc_bucket(b.n)))

BlockEnd(b) == BlockStart(b) + b.n

\* The frames the page allocator handed malloc for the superblock of b.
SuperblockEnd(b) ==
    (b.sb + (IF b.slot = Uni
             THEN 2 ^ page_order(CEIL(b.n + SBLOCK_SIZE, PAGE_SIZE))
             ELSE 1)) * PAGE_SIZE

\* C37: the byte ranges [p, p + n) of the live pointers p returned by
\* malloc(n) are pairwise disjoint, overlap no superblock header of a live
\* pointer, and lie inside the frames the page allocator handed out for the
\* pointer's superblock: the usable size of the block is at least n, for
\* small and large n alike.
C37_LiveRanges ==
    HeapRunning =>
        /\ \A b \in live : BlockEnd(b) <= SuperblockEnd(b)
        /\ \A a, b \in live :
               a # b => (BlockEnd(a) <= BlockStart(b) \/ BlockEnd(b) <= BlockStart(a))
        /\ \A a, b \in live :
               (BlockEnd(a) <= b.sb * PAGE_SIZE
                \/ b.sb * PAGE_SIZE + SBLOCK_SIZE <= BlockStart(a))

----------------------------------------------------------------------------
\* kthread_create without a page

\* The places of kthread_create after alloc_thread has returned.
CreateLocs ==
    {"allocate_tid", "allocate_tid:locked", "allocate_tid:release",
     "__kthread_create", "kthread_create:unblock"}

\* C38: if the page allocator cannot supply a page when kthread_create is
\* called, kthread_create returns -1: it creates no thread, consumes no
\* tid, leaves the ready queue and thread_count as they are and never
\* dereferences the null pointer; so no thread goes on through
\* allocate_tid and __kthread_create with t = null.
C38_NullAllocReturns ==
    /\ \A t \in Threads : \A k \in DOMAIN stk[t] :
           stk[t][k].loc \in CreateLocs => stk[t][k].t # null
    /\ panic # "store page fault: null->tid"

----------------------------------------------------------------------------
\* Reaping a DEAD thread

\* C39: when a DEAD thread is reaped, every access free_thread and
\* proc_deregister_thread make to its thread structure (magic, status,
\* owning process) happens while the page of the thread is still held from
\* the page allocator: nothing reads or writes it after free_page.
C39_NoAccessAfterFree ==
    ev.op = "free_thread" =>
        \A k \in DOMAIN ev.acc : ev.acc[k].held

----------------------------------------------------------------------------
\* Progress of the ready queue under timer ticks

\* One step of the thread that holds the CPU: every action but the timer
\* interrupt.
cpu_step ==
    \/ thread_hart_init
    \/ trap_init
    \/ trap_hart_init
    \/ scheduler_start
    \/ scheduler_start_intr_enable
    \/ scheduler_start_semaphore_down
    \/ thread_yield
    \/ thread_yield_ret
    \/ thread_block
    \/ thread_block_ret
    \/ thread_exit
    \/ schedule
    \/ schedule_tail
    \/ semaphore_try_down
    \/ semaphore_down
    \/ semaphore_down_loop
    \/ semaphore_up
    \/ kthread_create
    \/ proc_register_thread
    \/ allocate_tid
    \/ allocate_tid_locked
    \/ allocate_tid_release
    \/ lock_try_acquire
    \/ lock_try_acquire_holder
    \/ lock_release
    \/ kthread_create_frame
    \/ kthread_create_unblock
    \/ s_ret_trap
    \/ kthread
    \/ function_return
    \/ idle
    \/ idle_up
    \/ idle_loop
    \/ s_trap_ret

\* The hart executes the instructions of the current thread, and the timer
\* keeps its interrupt pending until the hart takes it: a tick is taken
\* whenever interrupts are enabled again and again.
SpecTicks ==
    /\ Init
    /\ [][cpu_step \/ timer_handle_interrupt]_vars
    /\ WF_vars(cpu_step)
    /\ SF_vars(timer_handle_interrupt)

OnReadyQueue(t) == \E k \in DOMAIN ready_threads : ready_threads[k] = t

\* C40: if timer ticks keep arriving while interrupts are enabled, every
\* thread on the ready queue eventually becomes RUNNING, whichever thread
\* holds the CPU: an ordinary thread that never yields, or the idle thread.
C40_ReadyRuns ==
    \A t \in Threads : OnReadyQueue(t) ~> (status[t] = "RUNNING")

============================================================================
